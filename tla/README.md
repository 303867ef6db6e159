# Verification of frontend-observability

TLA+ models of the program in this repository, TLC configurations that check
them on small instances, and theorems about every modelled component, which
TLAPS proves for every instance. Paths are relative to the root of the repository.

Reading order: the system, the modules, the runs, the proofs, then what the
models found and what they leave out. `PROJECT.json` maps every definition to
the lines it stands for and lists the hazards the properties are aimed at.

## 1. The system

    browser SDK -> reverse proxy -> Telemetry Ingest -> RabbitMQ
                        |                                  |
                        |                        Telemetry Delivery Worker -> OpenObserve
                        v                                  ^                      |
            Observability Control Plane                    | hold file    Session Metadata Sync
                        ^                                  |
                        +-------- operator and lab commands +

| Component | State | Operations | Hard behaviour |
| --- | --- | --- | --- |
| **Telemetry Ingest** (`apps/telemetry-ingest`) | `ready`, `blocked`, `channel`, one handler per request | accept a batch, ask the control plane, publish with a confirm, answer 202 or 503, shut down | state read before an `await` and used after it; a confirm racing its timer; crash between confirm and answer |
| **Delivery core** (`packages/telemetry-delivery-core`) | none; the queues it declares | topology, durable message, retry routing, classification of OpenObserve's answers | queue limits, attempt limit, delivery limit |
| **Delivery Worker** (`apps/telemetry-delivery-worker`) | unacknowledged messages, `controlState`, `consuming`, `consumers`, `shuttingDown` | handle a message, publish its successor or dead letter, acknowledge, poll the control file, hold and resume | crash between two steps, duplicates, refused successors, polls that overlap |
| **RabbitMQ** (external) | queues, unacknowledged messages, alarms | confirm, refuse, redeliver, expire, dead-letter | at-most-once dead-lettering, limits |
| **Observability Control Plane** (`apps/observability-control-plane`) | control and config documents, global and per scope; history; audit log | serve, publish, resolve a scope, expire | several files written one after the other, no lock |
| **Operator commands** (`scripts/operator`) | none | disable, enable, publish config | two writes per command, interruption between them |
| **Lab kill switch** (`scripts/lab`) | lock file, proxy gate | on, off; a detached daemon re-stamps the document | several processes, partial failure, lost lock |
| **Browser runtime control** (`packages/browser-observability/src/runtime-control`) | registry of the page, timer, fetch in flight | initial fetch, refresh loop, wake-up events, stop | stale and reordered documents, expiry between refreshes, a loop that dies |
| **Browser lifecycle** (`.../bootstrap`, `lifecycle`, `consent`, `adapter`) | runtime object, initialization in flight, the SDK singleton | initialize, setTrackingConsent, record, shutdown | tasks that go on with an object that was replaced; an SDK that cannot be initialized twice |
| **Session Metadata Sync** (`apps/session-metadata-sync`) | watermark in memory and on file | search, aggregate, ingest, advance the watermark | crash before the watermark, batch limit, late rows |
| **Sanitization, contracts, correlation fields, diagnostics** | counters | pure functions over events | none that interleaves |
| **Starters** (`scripts/lab/dashboards*`, `scripts/lab/alerts*`) | the company's dashboards and alerts in OpenObserve; a local record of what was installed | install, restore, import, verify | the company works in the UI meanwhile; partial installations; a deletion to respect told from one that never happened |
| **Canonical streams** (`scripts/lab/streams*`) | stream settings in OpenObserve, manifests | provision, verify, `test:streams` | writes name by name, of which some cannot be undone; drift between the two looks |
| **Alert policies** (`scripts/lab/alerts/policy.js`) | status, counters, open incident of one policy | evaluate a sample | missing, failed and too small samples; cooldown across incidents |
| **Recovery** (`scripts/recovery`, `scripts/lab/control-plane`) | exports, archives, disposable Docker projects | logical export and restore, the proof `test:recovery` | leftovers of earlier proofs, failing commands, changes during an export |
| **Lab provisioning** (`scripts/lab`) | secrets, tokens, certificates, pipelines, containers | `lab:init`, `lab:up`, `lab:down`, `lab:purge`, leaf rotation | interruption between any two writes, then the same command again |
| **Lab verification** (`scripts/lab/verify-*.mjs`, `scripts/performance/verify-resilience.mjs`, `run-resilience-soak.mjs`) | the lab they disturb: stopped containers, hold, kill switch, queues | fourteen gates one after the other; both soaks, proxy security and resilience alone | a check that throws half-way; cleanup; a proof that passes without having proved |
| **Other performance, security and build scripts** | | measurement, scanning, release | I/O |

The components meet in few places: ingest and worker only in RabbitMQ's queues;
commands, ingest and page only in the control documents; commands and worker
only in the hold file; host application and page registry only in the calls of
the browser package. Operating commands meet the rest only in OpenObserve, in
files and in the lab's containers. The models follow these seams.

What makes each of them correct:

- **Pipeline**: 202 is answered only for a durable message; a durable message is
  never lost by ingest or worker; the kill switch stops admission; attempts are
  counted right; every request is answered; a backlog drains.
- **Worker control**: nothing is consumed without an explicit `hold: false`, a
  hold ends consumption, a clear starts it, no queue has two consumers.
- **Control documents**: revisions grow across scopes; what a scope is served
  goes back only to a kill; the hold follows the kill switches; the lab's proxy
  gate and document never disagree in the unsafe direction.
- **Session sync**: a row that arrives within the look-back is never skipped and
  gets its record; a service that calls itself ready has caught up.
- **Page**: a kill that is received closes the page, the reported state agrees
  with the gate, the loop never dies, a lasting kill reaches the page.
- **Starters**: a starter exists once, a missing one was deleted or never
  finished, and what the company made, renamed, edited or deleted stays.
- **Streams**: provisioning never does what cannot be undone, changes only what
  differed, and has nothing left to do the second time.
- **Alerts**: firing and resolution alternate and are each earned by samples.
- **Recovery**: an accepted proof saw the data of its own source in every
  project, a restore brings all of what can be brought and changes nothing that
  is there, and nothing is left behind.
- **Lab**: a chain that passes leaves the lab open, no gate is in the way of a
  later one, a delivery that is proved took place, and a `lab:up` that comes to
  its end leaves a lab that works.
- **Lifecycle**: nothing leaves the page without consent or outside the life of
  the package; no order of calls leaves it stuck.

## 2. Modules

| Module | Models | How state and actions correspond |
| --- | --- | --- |
| `Broker` | the topology of `rabbitmq.js` and what RabbitMQ does with it | `copies` holds one record per copy of a message: its queue or hand (`place`), attempts, broker redeliveries, reason for death. One operator per broker behaviour. |
| `TelemetryIngest` | `server.js`, `runtime-control.js` of the ingest | `phase[m]` is where a request's handler awaits; `wire[m]` what became of its publish, as the broker sees it; `response[m]` the answer. Each action is the code from one `await` to the next. |
| `DeliveryWorker` | `handleMessage` and all it calls | `handler[c]` is where the handler of an unacknowledged copy awaits; the worker's process ends on a refused successor (the rejection is not caught) or a lost connection, and all its copies return. |
| `DeliveryPipeline` | both services and the broker | the composition, its safety properties and the inductive invariant `IInv`. |
| `DurableDelivery` | nothing in the code: the promise | at-least-once delivery, six sets of messages. `DeliveryPipeline!Promise` is the refinement mapping. |
| `BacklogDrain` | the worker alone with full queues | the same actions, a different start and fairness, for the liveness questions. |
| `WorkerControl` | the control file, its two-second polls, hold and resume, AMQP `consume` and `cancel` on one channel | `tasks[t]` are the running `applyControlState` calls (polls are not awaited), `channel` the requests on the wire in order, `live` the consumers RabbitMQ knows, `consumers` those the worker knows. |
| `ControlPlane` | the documents, `publishControl`, `resolveControlDocument`, `deliveryControlDocument`, the operator command | one record per command with the document or hold it is about to write. |
| `LabKillSwitch` | `kill-switch.mjs`, the lock, the proxy gate, the refresh daemon | one record per command; `daemon` is what the daemon has read and is about to write, at any time and without the lock. History: `wanted` is what the last command meant, `decided` who decided what the global document now says. |
| `PageControl` | the browser's `runtime-control/` | the registry's fields; `flight` is the fetch in progress with the document the server read for it. |
| `RuntimeControl` | all writers and one page | the composition. `place`, chosen at the start, is a "deployment", which has operator commands alone, or the "lab", which has operator commands, lab commands and the daemon, in any order. |
| `BrowserLifecycle` | `coordinator.js`, `lifecycle/`, `consent-manager.js`, `create-adapter.js` | `runtimes` are the runtime objects in order of creation, `current` the one in the module variable; `init.on` and `closing[k].on` are the objects running tasks hold on to. |
| `SessionSync` | `sync.js`, `scheduler.js`, `server.js` of the sync | `source` and `target` are the two streams, `sync` the call of `syncOnce` in progress, `file` and `watermark` the watermark on disk and in memory; `due`, `backlog` and `partial` are history variables. |
| `WorkerRuntime` | one worker process, seen from its control loop or from its handlers | `focus` says which of `WorkerControl` and `BacklogDrain` a behaviour follows. |
| `StarterGovernance` | `dashboards-` and `alerts-{install,restore}-starters.mjs`, `dashboards-import.mjs`, `verify-dashboards.mjs`, `verify-alerts.mjs` | `store` is the folder in OpenObserve, `recorded` the install-state file, `cmd` the running command with the listing or object it has read; one action per HTTP call. A listing that cannot be read is an empty one, as in the code. The company's edits may come between any two calls, those of a verification included. |
| `StreamGovernance` | `streams-provision.mjs`, `streams-verify.mjs`, `streams/`, `verify-streams.mjs` | `desired` and `server` are manifest and settings, `job` the provisioning or verification under way with the field it is about to write, `test` the script around it. |
| `AlertEvaluation` | `evaluatePolicySample` in `alerts/policy.js` | one action per kind of sample; `streak` and `healed` are history variables. |
| `LabScripts` | the lab as the scripts see it, and the semantics of their steps | `todo` are the steps left, `frames` the `try`/`finally`/`catch` blocks around them; a step stops, starts, awaits, sets, publishes, looks or purges. `LabMoves` is what the lab does by itself. |
| `LabChecks` | the verification scripts | each script is a sequence of steps with its blocks; no state of its own. |
| `AcceptanceChain` | `verify-full-acceptance-chain.mjs` | `gate` and `command` are the positions in the chain; the outage soak, proxy security, resilience and the resilience soak are chains of one. |
| `LabProvisioning` | `up.mjs`, `purge.mjs`, `init.mjs` and what they call: secrets, certificates, tokens, pipelines, the kill switch | `stage` is the next step of the command. Files and what runs are kept apart: issued tokens and the token each container started with; the leaf on file and the one served; `posted`, the kill switch in each file, and `loaded`, the gate the running proxy has loaded. `owing` is a history variable: what a `lab:up` left that no later one makes up for. |
| `Governance` | nothing of its own | the five above; a behaviour looks at one (`focus`). |
| `ControlPlaneCopy` | `control-plane/logical-export.mjs`, `logical-restore.mjs` | `copying` is the call under way: groups still to read, objects still to bring, actions taken. |
| `RecoveryProof` | `verify-openobserve-recovery.mjs`, `disposable-environment.mjs` | `proof` is the stage and its step, `stored` what each OpenObserve has, `results` what the stages found. The main lab is one of them, and the governance stage provisions its streams. |
| `DeliveryPipelineProofs` | | theorems about admission, custody and attempts, and the refinement of `DurableDelivery`. |
| `WorkerRuntimeProofs` | | theorems about `WorkerControl` and, through an instance of the pipeline's, `BacklogDrain`. |
| `RuntimeControlProofs`, `SessionSyncProofs`, `BrowserLifecycleProofs` | | theorems about the module of that name. |
| `GovernanceProofs` | | theorems about provisioning, starters, alert policies and streams, as `Governance` runs them. |
| `ChainProofs` | | theorems about the acceptance chain, the programs beside it and every script that they run. |
| `RecoveryProofs` | | theorems about `RecoveryProof` and `ControlPlaneCopy`. |
| `MC...` | | small sets for TLC, nothing else. |

An action stands for all the code between two points where something else can
run: two `await`s of a handler, two file operations of a command. Payloads are
abstracted to whether they are accepted (`Poison` are messages the worker finds
it cannot handle), delays and back-off to "at some time", identities and
documents to the fields the code branches on. Definitions marked "a plausible
bug" are used by no action: each is the mutated form of a definition, with which
a property is shown to be violated.

## 3. Runs

| Run | Question | Result |
| --- | --- | --- |
| `pipeline_contention` | Two requests, one of them poison, queues of length one, a crash, alarms, kill switches, shutdowns: is anything accepted but not durable, durable but lost, admitted though closed? | holds |
| `pipeline_delivery` | Three attempts through two retry queues, two copies, two crashes: does the pipeline implement at-least-once delivery, does "attempt_limit_exceeded" mean that many attempts, is every request answered? | holds |
| `worker_runtime` | Does a backlog drain through holds, alarms, a crash, full queues and an OpenObserve that may fail for ever? Does consumption follow the control file? | holds: never without an explicit clear; in all other respects while RabbitMQ answers within a polling period |
| `worker_overlap_held` | And without that restriction? | **violated** |
| `runtime_control` | A deployment: operator commands, expiry, interruption, and a page that polls, stops, starts, wakes up and reloads. The lab: two kill-switch commands, one of them killed or unable to reload the proxy, an operator command and a daemon that reads and writes whenever it likes. | holds |
| `lab_refresh` | Does a kill switch stay on through a refresh? | **violated** |
| `session_sync` | Rows late, early and out of order, searches that meet their limit, failing calls, a process that ends anywhere: is a row skipped, is readiness earned? | holds |
| `browser_lifecycle` | A host that calls anything at any time, an SDK that throws anywhere. | holds |
| `browser_unawaited` | Does nothing leave without consent, for a host that calls `initialize` again before the first call has ended? | **violated** |
| `browser_reinit` | Does a page that is active with consent after a second `initialize` send? | **violated** |
| `governance` | Do installs, restores and imports, stream provisioning, alert policies, the acceptance chain and lab provisioning keep what they promise, with failing calls, unreadable listings, interruptions and changes that come in between? | holds |
| `recovery` | Two recovery proofs, a change by the company and two faults anywhere: does an accepted one prove what it says, and clean up? | holds |

`governance` and `worker_runtime` check several modules in one run. These share
no state that matters to their properties, so a behaviour looks at one of them,
chosen in the initial state, and the others stand still: the state space is the
sum of theirs, not the product, and nothing is assumed of any. A property of one
of the modules is stated over all behaviours, and is about those that look at it.

Some properties bundle named parts, each with a comment of its own where it is
defined:

| Property | Parts |
| --- | --- |
| `ConsumersOK` | type, `NeverConsumesUnevaluated`, `SingleConsumer` |
| `PageOK` | type, `GateMatchesState`, `LoopNeverDies` |
| `SwitchHolds` | `KillHasProxyClosed`, `SwitchStaysOn` |
| `RevisionsGrow` | `PublishedIsNewest`, `ServedRegressesOnlyToKill` |
| `WatermarkOK`, `LifecycleOK`, `ProofOK` | type and `WatermarkIsEarned`, `LoopOnlyWhileLive`, `AcceptedLeavesNothing` |
| `StartersOK` | type, `OneCopyEach`, `AbsenceExplained` |
| `CompanyWorkKept` | `CompanyWorkSurvives`, `RecordedDeletionRespected`, `OverwriteKeepsEdits` |
| `StreamsKept` | type, `NeverDestructive`, `OnlyWhatDiffered` |
| `AlertingSound` | type, `CooldownBetweenFirings`, `IncidentsAlternate`, `FiringIsEarned`, `ResolutionIsEarned` |
| `ChainSound` | type, `PassedMeansOpen`, `QuietRunsPass` |
| `ProvisioningOK` | type, `UpMeansCurrent` |
| `RestoreComplete` | `RestorableRoundTrips`, `SecondRestoreSettles` |
| `NothingElseTouched` | `MainLabKept`, `RestoreKeepsWhatIsThere` |

`CHECK_DEADLOCK FALSE` appears where a behaviour really ends in the model: the
budgets of crashes and commands are used up, the clock stands at its horizon, or
every message has met its fate. The worker's control loop never ends, and
deadlock is checked in both runs that have it (`WorkerRuntime` lets a backlog
that is worked off stutter), as it is in `session_sync`.

### Bounds, and why they are enough

- `MaxAttempts` is 2 or 3 instead of 16 (`constants.js:43`), `DeliveryLimit` 1
  instead of 16, `RetryLevels` 1 or 2 instead of 3: a first, a middle and a last
  attempt and a repeated last retry level exist from three on. Nothing compares
  attempts with anything but the limit and the last level.
- `QueueMax` and `DlqMax` 1 or 2 instead of 25 000 and 5 000: full and not full
  is all the code distinguishes, and full must happen.
- `Copy` bounds the copies of all messages in existence at a time. The pipeline
  runs have as many slots as a message with its successor needs; a publish that
  finds no slot waits. `BacklogDrain` has three slots for one message, so that a
  crash's duplicate meets a refused successor.
- `CrashBudget` 1 or 2 crashes or shutdowns: one between any two steps, and a
  second while the duplicates of the first are under way.
- `ChangeBudget` 4 (2) changes of the control file and two overlapping polls:
  every pair of opposite commands overlaps.
- In `RuntimeControl.cfg` `Ttl` and `Horizon` are 1: a document is fresh, at its
  last instant or expired. `CommandBudget` 3 counts commands and refreshes: three
  are needed for scoped, global, scoped, and for on, refresh, off. `DeathBudget`
  1; one scope and one operator (the theorems have any number), two lab commands,
  and the page only in the deployment (`PageIn`). `LabRefresh.cfg` needs no
  operator and no page.
- In `SessionSync`, three instants and a look-back of one: a row is before, in or
  after the window. Three rows and a limit of two: a search returns everything,
  or part of its window. One session: sessions do not interact but for the limit.
- In `Governance.cfg` two starters and three identifiers (interchangeable, hence
  the symmetry): a starter, its duplicate and an object of the company's. One
  change by the company and two commands: an interrupted command and its
  repetition.
- One stream, two names of `distinct_value_fields`, one change by the company,
  two provisionings and `MaxSafe` 1: none, some and all of the names are missing,
  and records with one unknown field and with two lie on either side of the
  limit. The limit is counted per record, as the code counts it. The streams are
  handled one after the other without common state.
- Three alert policies: two breaches, two healthy samples and a cooldown of two
  minutes; one of each and a threshold of recovery; and the least that
  `validateAlertPolicy` accepts, no breach and no count of healthy samples.
  `MaxMinute` 5 and `MaxNotes` 4 leave room for two incidents with their
  resolutions, and for a second key within one. `CountersFollowed` is a state
  constraint of the run and no part of the specification: beyond three, a counter
  is past every limit it is compared with.
- The acceptance chain and the programs beside it run whole, all gates in order,
  with one failing call or wait that runs out anywhere (`FaultBudget`), and any
  purge may miss a message. A batch of the past, and two of a script's own.
- Provisioning is interrupted twice, and twice a certificate nears its end, is
  rotated, the kill switch is used, or somebody edits a pipeline: an interruption
  of the command that repairs another.
- In `RecoveryProof.cfg` two proofs, two faults and one change by the company,
  nine places, and five configurations of the main lab: two that can be restored
  and three of which something cannot. The manifest wants a name more than the
  lab's stream has, so that provisioning writes to the main lab, and refuses in
  the lab that stores original data. The second fault strikes the proof that
  finds what the first one left.
- `MaxRuntimes` bounds the runtime objects made in a behaviour, two shutdowns
  may run at once, two identities exist. Three objects are a first life, a
  shutdown and a second life.

### Fairness, and why the code justifies it

- Request handlers go on: an `await` of the control plane ends with an answer or
  its abort timer, that of a confirm with the confirm or the timer at
  `server.js:148`. The abort timer of the control check is cleared before the
  body of the answer is read (`runtime-control.js:72-79` of the ingest); the body
  is bounded by the time-out that Node's `fetch` has for it. Nothing is assumed of the broker: it need never confirm.
- In `BacklogDrain` a delivery ends (the `fetch` has a timeout), a confirm
  arrives once no alarm is up, and Docker restarts the worker. The restart
  policy is `on-failure:20` (`infrastructure/docker/compose.yaml:19`): weak
  fairness of `WorkerStart` presumes that it is not used up, and the crash budget
  keeps to that, except for crashes by refused successors, which end when the
  delivery limit dead-letters the message. Holds and alarms do not last for ever.
  OpenObserve's answers are not fair.
- In `WorkerControl` the interval timer keeps firing and RabbitMQ answers
  `consume` and `cancel`. Changes of the file, shutdowns and failures are not
  fair.
- In `SessionSync` the interval keeps firing and every call ends, as does a
  process after a signal. A process that is restarted, or an OpenObserve that
  fails, in every single sync would never record anything, so starting, a search
  that is answered and an ingest that stores are strongly fair.
- In `FairSpec` of `RuntimeControl` the page's timers fire and a fetch ends within its three
  seconds; of the fetches that are asked again and again some are answered in
  time (strong fairness of serving and applying), without which no program could
  learn of a kill. No command is fair.

### Restrictions some runs make

- `~ overlapped` in `WorkerControl`: no poll began while another was waiting for
  RabbitMQ, that is, RabbitMQ answers within the two seconds of the timer.
- `~ overlapped` in `BrowserLifecycle`: the host awaited `initialize` and
  `shutdown` before it called the next one. Consent may change at any time. Of any
  host, `LoopOnlyWhileLive` says only that the loop runs after a document was
  applied: an initialization that goes on starts it for a runtime that was shut
  down or replaced.
- `place = "deployment"` in `DeliveryFollowsKill`, `RevisionsGrow` and
  `KillSeenCloses`: what operator commands promise one another. The lab's commands
  count revisions on from the global document alone, so there these are false.
- `decided = "lab"` in `SwitchHolds`: it speaks while the global document is what
  the lab's commands decided. An operator's command may well switch off what the
  lab switched on, as it is meant to, and what a refresh undoes is `lab_refresh`.
  Neither is kept from acting, and both may act between any two steps of a command.
- `~ partial` in `SessionSync`: each search returned its whole window. One that
  meets its limit returns any rows it likes, and the watermark moves to the
  newest; one that cannot be read counts as an empty one. Rows count as `due`
  once there is a watermark; before, each search looks back from the present.
- `QuietRunsPass` asks only about behaviours in which no call failed, no wait ran
  out before the lab was ready and no purge missed a message.
- `OneCopyEach` does not count the copies made when an import brought a marked
  object, when the sweep of a restore could not delete one (an alert that the
  company renamed and whose deletion fails is then there twice, and the restore
  says so), or when a command was given an unreadable listing of a folder with
  starters in it. `VerifiedMeansInstalled` is about dashboards; the verification of
  the alerts only counts marked ones. It says of each starter that it is on record
  and there, unless the company deleted it since it was created, and in the
  released version unless one of those second copies may be.
- Commands run one at a time, and not beside a verification: the operator who runs
  it does not release, lose the record or start another command meanwhile. The
  company acts at any time.
- `UpMeansCurrent` excuses a container, the leaf and the proxy's gate by a debt
  (`owing`) that only one event can make: an interruption between a token's file
  and its containers, an interrupted renewal, a gate closed in a proxy that ran
  on. A debt ends when what was owed is done. The rest it says of every `lab:up`
  that came to its end.
- `MainLabKept` allows writes in the governance stage only, of streams that have a
  manifest, of fields that are written or names that are added, and none that the
  guard refuses.
- `AcceptedRoundTrip` says of an export that it names nothing it does not contain
  and makes the round trip, not that it has all of the main lab: dashboards of a
  folder whose list could not be read are missing without notice.
- `DeliveryFollowsKill` asks only about moments between commands of which none
  was interrupted.

## 4. Proofs

Every safety property of a passing run is a theorem, proved by TLAPS for
every value of the constants: any number of messages, scopes, operators,
sessions, runtimes, starters, streams, policies, proofs and failing calls, any
budget, any length of history. Each proof module is checked by `tlapm <module>.tla`;
`ChainProofs` takes some twelve minutes and `GovernanceProofs` seven, the others
less.

| Module | Theorem | States |
| --- | --- | --- |
| `DeliveryPipelineProofs` | `TypeCorrect` | `[]TypeOK` |
| | `NeverLost` | `[]DurableNeverLost`: what the broker has taken is in a queue, in the worker's hands, stored, dead-lettered, or was lost by the broker's own transfer |
| | `AcceptedDurable` | `[]AcceptedIsDurable`: 202 only for what the broker has taken |
| | `KillSwitchStops` | `[]KillSwitchStopsAdmission`: no publish of a request during whose whole processing collection was closed |
| | `LimitIsAttempts` | `[]LimitMeansAttempts`: a dead letter that says so was posted as often as the limit allows |
| | `ImplementsPromise` | `ImplementsDurableDelivery`: the pipeline implements the abstract at-least-once delivery |
| `WorkerRuntimeProofs` | `PromptControl` | `[]PromptControlHolds`: while no polls overlap, a held worker is delivered nothing and a ready one consumes from every queue |
| | `ConsumersSound` | `[]ConsumersOK`: nothing is consumed without an explicit `hold: false`, however polls overlap; no queue has two consumers while they do not |
| `RuntimeControlProofs` | `PageIsSound` | `[]PageOK`, with every writer |
| | `HoldFollowsKill` | `[]DeliveryFollowsKill`, if `OneCommandAtATime`: between commands none of which was interrupted, a kill switch in force has the delivery held (held without one is possible: a kill that expires leaves the hold) |
| | `RevisionsOnlyGrow` | `RevisionsGrow`, if `OneCommandAtATime` |
| | `KillClosesPage` | `KillSeenCloses`, if `OneCommandAtATime` |
| | `SwitchStays` | `[]SwitchHolds`: any number of lab commands and operators, and a daemon that acts whenever it likes |
| `SessionSyncProofs` | `WatermarkEarned` | `[]WatermarkOK`: neither watermark, in memory or on file, is ahead of what was recorded, and the file is not behind the memory |
| | `NoRowForgotten` | `[]NothingSkipped`: a row that arrived within the look-back has its record or lies in the next window |
| | `ReadyCaughtUp` | `[]ReadyMeansCaughtUp` |
| `BrowserLifecycleProofs` | `LoopLivesWithPackage` | `[]LifecycleOK`: the loop runs only after a document was applied, and for a host that awaits its calls only while the package is live |
| | `NeverStuck` | `[]NoLimbo`, whatever the host does |
| | `ConsentDecides` | `[]AwaitedEmitsOnlyWithConsent` |
| `GovernanceProofs` | `LabComesUpCurrent` | `[]ProvisioningOK`: what a `lab:up` that came to its end leaves, and which debt each exception needs |
| | `StartersStayWhole` | `[]StartersOK`: one copy each but for the second copies named above, every absence explained |
| | `CompanyKeepsItsWork` | `CompanyWorkKept` |
| | `VerifiedIsInstalled` | `VerifiedMeansInstalled`, with the company at work during the verification |
| | `AlertsAreEarned` | `AlertingSound`, for every policy that `validateAlertPolicy` accepts |
| | `StreamsStayTheirs` | `StreamsKept` |
| | `SecondRunIsIdle` | `SecondRunSettles` |
| | `PassedIsConform` | `[]PassedMeansConform` |
| `ChainProofs` | `ChainIsSafe` | `[]ChainSound`: what passed left the lab open, what nothing disturbed passes |
| | `ProofsOfDelivery` | `ProvedMeansDelivered`: a delivery that is proved took place |
| `RecoveryProofs` | `RecoveryInvariant` | `[]RecoveryInv`, on which the next five rest |
| | `AcceptedProofSawItsSource` | `[]AcceptedSawThisSource` |
| | `AcceptedExportRoundTrips` | `[]AcceptedRoundTrip` |
| | `RestoreIsComplete` | `[]RestoreComplete` |
| | `AcceptedCleansUp` | `[]ProofOK` |
| | `NothingElseIsTouched` | `NothingElseTouched`: of the main lab only stream settings that a manifest wants are written, and no restore removes or rewrites what is there |

Each follows the same way: an inductive invariant, one lemma per action that it is
kept, and the property from the invariant (an action property from the invariant
before the step). The invariants are written in the modules they are about, and
TLC has checked them on the runs' instances; only that of the scripts, which no
enumeration could evaluate, is written with its proof. Why the properties alone
are not inductive, and what the invariants add:

**Delivery pipeline, `IInv`.** `HandlersOK`: a handler runs only for an
unacknowledged copy, a retry is decided only below the limit, and "stored" is
true. `Custody`: for every message the broker holds somebody answers:
OpenObserve, the record of transfer losses, or a copy that no handler is about
to acknowledge in favour of another. "Some copy exists" is not enough: two
duplicates could each be about to be acknowledged because of the other. A
handler reaches "confirmed" only by storing a successor, and that successor is
such a copy; when it is acknowledged in turn it has a successor of its own or its
message is stored. A crash of the worker returns every copy, which only makes
more of them answer. `AdmissionOK`: a request is published at most once, after it
was cleared and not after it was answered, and whoever is cleared has seen
collection open. Admission and custody touch different variables, and the proof
keeps them apart: `IngestPreserves` and `DeliveryPreserves` with one lemma per
kind of step, joined in `NextIInv`. `LimitMeansAttempts` needs in addition
`AttemptsCounted`: no copy says more attempts than its message was posted, nor is
a handler about to. It may say fewer: a copy that a crash returned was tried
without saying so. The refinement maps each
step to a step of `DurableDelivery` or a stutter, over `IInv`: only a message
that has a copy can be delivered, and the only step that takes the last copy of
an undelivered message away is the broker's transfer.

**Worker control, `ControlInv`.** `LoopInv` holds always: a consumer RabbitMQ
knows, or a `consume` on the wire, presumes that some poll has read a clear.
`PromptInv` holds until polls overlap and ties the list of consumers that the
worker knows, the requests and answers on the channel in their order, and
RabbitMQ's own list to one position in the loop over the queues (`ResumeOK`,
`HoldOK`). When `focus` is on the handlers, the pipeline's proof is used again:
`WorkerRuntimeProofs` takes `DeliveryPipelineProofs` as an instance, with a
`BacklogDrain` state as a pipeline whose ingest is idle.

**Control documents and page.** `PageInv` says what a running loop may count on.
`HoldInv` follows the hold through the two writes of a command. `NewestInv` is
why revisions grow: the one command under way was given a revision above all
documents. `KillSeenInv` relates the page's document, the one in flight and the
files: no kill that is on file is older than what an open page has applied.
`SwitchInv` says, per step of a lab command, which of gate, document and hold it
has already written, and that the lock is its own. What a step wrote last only as
long as nobody else replaced it, which `decided` follows: a refresh that writes
back what it had read before a command, or an operator, takes the document out of
the lab's hands until a lab command publishes again.

Three theorems have a hypothesis, and the code is the reason.
`OneCommandAtATime` is that there is at most one operator at a time; the commands
take no lock, and two at once publish the same revision or write the hold of the
first after the publication of the second (section 5).

**Session sync, `IInv`.** `AllEarned` says of each place the watermark passes
through (the rows of a search, the value to be written, the file, the memory)
what `WatermarkOK` says of the last: some row of that time has its record or needs
none. `NothingForgotten` is `NothingSkipped` during a sync, when the window has
been searched and nothing ingested. `SyncOK` says that the file is never behind
the memory. `BacklogCaught` follows what a service had to
record when it started.

**Browser lifecycle, `LifecycleInv`.** `TransientOK`: only the runtime of the
initialization in flight is initializing, and the current one is shutting down
only while a shutdown runs, whatever overlaps. `DocumentFirst`: an
initialization that gets to the SDK has applied a document. `EpochOK` ties a correlation epoch to consent.
`AwaitedInv` (for a host that awaits its calls) follows the one task there is,
and the context that the SDK's callbacks hold, which after a second life need
not be the current one (`CallbacksOK`).

**Starters, `StarterInv`.** All that the commands do rests on a listing that is
old by the time it is used. `SameMarkers`: an identifier in the listing and in
the store is the same object. `Follows(s)`: since the listing nobody has added a
copy of the starter, and one that is gone is accounted for, so that "missing in
the listing and not on record" is a good reason to create. `InstallOK` and
`RestoreOK` carry this through the rest of the starters still to be handled
(`OrderRests`), `HistoryOK` says what is on record, and `ScriptOK` that what a
restore reported as created in `test:dashboards` is there in the release.

**Streams, `StreamInv`.** A job works from the settings that it read: `PlannedOK`
says that what it is about to write differed then and may be changed, `SettledOK`
what a first run has brought about, `ConformOK` that the findings collected so
far are those of the streams handled so far, as long as nobody interferes.

**Alert policies, `AlertInv`.** `CountersOK` bounds the code's counters by the
samples that really came (`streak`, `healed`); `LastOK` keeps the time of the
last firing across incidents, which the cooldown between two incidents needs.

**Provisioning, `ProvisioningInv`.** `EstablishedOK` says what each stage of
`lab:up` has established, interrupted or not, `ControlsOK` which of the control
files have been opened. `ReadersOK`, `CertsOK` and `ControlsOK` tie what runs to
the files: a container has the token on file, or the command that replaced it is
still to recreate it (`Outdated`), or the debt is on record; in the same way the
leaf (`Renewing`) and the gate that the proxy has loaded. `AccountsOK`: a token on
file is one that OpenObserve knows, or its account is owing (`Untold`).
`RefusedOK` says why a `lab:up` that gave up did.

**Scripts and chain, `ChainInv`.** The scripts are data, sequences of steps with
blocks in them, so the proof is a logic of programs in small. `Leads(E, R, e, s, f)`:
assertions of `E` can be put between the steps of `s`, from `e` to `f`, so that
each step with the assertions around it is one of `R`. `Proceeds` says so of a
command under way: of what is left of the block being run and of every block
around it, cleanup first. Entering and leaving a block, taking a step and
beginning a script keep it (`ProceedsIn`, `ProceedsOut`, `ProceedsOn`,
`ProceedsAtFirst`, proved once, for any assertions). Two kinds of assertions are
put to this use.

- *Facts* hold whatever calls fail. They are that a switch is off, that a
  container runs, and of the batch that it was sent, drained and is there
  (`Holds`). A step that has found nothing `Brings` some and `Takes` others, and
  one lemma per kind of step says that the lab does so. `Secured(goal)`: what is
  left of the command leads to the goal. `Doomed`: at the end of what is left, of
  the block being run or of one around it, the script throws, so that it will end
  with a finding. `TidiesUp` is then: the program has failed, its command has
  found something or is doomed, or it is secured to leave the lab tidy; `Delivers`
  is the same for the scripts that prove a delivery. No such thing can be said of a step
  alone: a `finally` that restores a switch counts only because every way out of
  its block leads through it.
- *Expectations* hold as long as nothing comes between: which containers run and
  which are stopped, the switches, where each batch can be, what the page can
  show (`Meets`). An expectation has to last while the lab moves by itself, which
  is why a batch may be expected in the main queue only where nothing can take it
  (`Resting`), and somewhere in the queues only while OpenObserve is away.
  `PlainQuiet` are the steps that `Passes` with what can be relied on after them,
  weakened at will (`Justified`); a wait passes because a lab that has come to
  rest has drained what it can. `OnTrack(goal)`: what is left leads to the
  expectation at the end of the gate, and the state meets the one between.
  `Passing` is: a program that nothing disturbed has found nothing and is on
  track. Between the two purges of the queues a message may have moved behind the
  first; `swept` says of this moment that none is in the queue purged first.

Every script has a lemma with the expectations between its steps (`PreAckQuiet`,
`SoakOutageQuiet`, ...; `ScriptsQuiet` lists them all). That it tidies up whatever
fails need not be argued again: `Known` maps an expectation to the facts that it
implies, and a step from expectation to expectation is then one from facts to
facts (`QuietIsTidy`). Only the full reset, which starts from any lab, and what
the proofs of a delivery know of their batch have plans of their own. The programs
are sequences of gates (`GateOK`), each of which begins where the one before it
ends: in a lab that is `Ready`, or `Drained` after a purge.

**Recovery, `RecoveryInv`.** `MarksOK` follows the two records of a source from
project to archive to project; `RoundTripOK` the export against what was
restored, through the groups still to read and objects still to bring while the
company may change the main lab; `CleanOK` volumes and containers. A
project holds `Proper` objects, in which only dashboards are in folders and only
alerts need streams. The proof made `Restorable` ask for the folder of every
dashboard: an export that lists a dashboard of a folder it does not list restores
it into none, and would not make the round trip.

### Assumptions

Theorems rest on the assumptions on constants, which are named in the modules that
declare them and which TLC evaluates on every run: a queue takes at least one
message, limits are positive, `Scope` is finite (the highest revision is the
maximum of the documents on file, `ScopeAssumption`), the worker has a queue
(`QueuesAssumption`), the limits are the pipeline's for a backlog as well
(`BacklogAssumption`), budgets are numbers, `Order` lists each starter once, in sequence
(`OrderAssumption`), a missing object is no object (`AbsentAssumption`), a file to
import has contents (`BatchesAssumption`), stream names are distinct and manifests
are settings (`StreamAssumption`), a policy has what `validateAlertPolicy` asks for,
a positive cooldown and numbers where it has numbers, or leaves them out
(`PolicyAssumption`), the budget of calls that fail is a number
(`FaultAssumption`), and what the main lab, the fixture and the manifests of the
recovery proof contain is finite and proper, with one stream of a name
(`RecoveryAssumption`, which also says `"folders" \in STRING`: TLC knows, the
provers have to be told). One is narrower than the program: the numbers of a
policy and of its samples are integers, where the program takes any number and
only compares them.

Where a proof needed it, a definition says the same in another form:
`CooldownBetweenFirings` speaks of any two notifications instead of neighbours;
the names still to add to `distinct_value_fields` are a set from which the first
in the manifest's order is taken (`IsNextName`) rather than a sequence.

### Only model-checked

- Liveness and every use of fairness: the prover's temporal backend does not
  reason about ENABLED. That an undisturbed chain comes to its end is of this
  kind: `ChainIsSafe` says that it passes when it does.
- That the recursive and counting helpers compute what they should on all
  inputs: induction over data is not available. What the proofs need of
  sequences they take from the prover or state as first-order lemmas about
  suffixes and orders (`SuffixFacts`, `OrderFacts`).

## 5. Where the code disagrees with what is said of it

1. **A hold during a resume is lost** (`worker_overlap_held`). `setInterval` does
   not wait for `applyControlState`. A hold read while `resumeConsumers` awaits
   `channel.consume` cancels the consumers registered so far and sets
   `consuming = false`; the resume goes on and registers the rest. The next polls
   see no change. `docs/security-model.md:24` says that only `hold: false` allows
   consumption.
2. **Consent withdrawn after the runtime was replaced** (`browser_unawaited`).
   `runInitialization` never asks whether its runtime is still the current one.
   While it waits, two calls of `initialize` with options that do not validate come
   in: the first disables the runtime, the second finds a disabled one and replaces
   it. Consent granted between the two and withdrawn later is withdrawn from the
   new runtime; the initialization then activates the old one, with its consent.
3. **Silent after shutdown and initialize** (`browser_reinit`). The SDK's
   callbacks keep the first adapter's correlation context, which `shutdown`
   cleared, and drop every event.
4. **A refresh undoes a kill** (`lab_refresh`). `refreshRuntimeControl` reads the
   document and writes it again without the lock that `kill-switch.mjs` takes
   (`generate-runtime-control.mjs:79-83`); lines 75-76 say that it "must never
   silently undo" the switch. A command between the two is written over, and since
   each later refresh preserves what it finds, the switch stays off with the
   proxy's gate closed.

Seen in the models, without a run of their own:

- `setTrackingConsent` with a value other than the two known ones: `index.js:88-89`
  of the package says that "Any other value fails closed to `"not-granted"`";
  `consent-manager.js:16-18` answers `INVALID_CONSENT` and leaves consent granted, as
  `tests/consent.test.js:32-41` expects. `RefuseConsent` has what the code does;
  `AwaitedEmitsOnlyWithConsent` is about the consent the package holds;
- a page ignores the lab's kill after a scoped publication: the lab counts
  revisions on from the global document, the control plane across all scopes, so
  the kill carries a revision the page has seen (`KillSeenCloses` without
  `place = "deployment"`);
- a clear read during a cancel leaves the worker ready and idle
  (`ReadyMeansConsuming` without the restriction);
- two operator commands at once can publish the same revision, and the hold of
  the first can be written after the publication of the second;
- a daemon that straddles switching off leaves the proxy open with an active
  document;
- consent granted while the SDK loads is overwritten with the consent read
  before, and events are dropped until consent changes again;
- the listings of dashboards and alerts are empty when the answer is not 200 or
  cannot be read (`dashboards/admin-client.mjs:42-45`, `61-67`,
  `alerts/admin-client.mjs:36-42`): an installation or restore goes on and creates
  a second copy of what it did not see;
- `logical-export.mjs:120-127` exports a folder whose dashboards cannot be listed
  as one without dashboards, and reports success;
- `init.mjs:41-43` says that the proxy "is not running yet at lab:init time", so
  that writing the gate file is enough. `lab:up` calls it as well, and without a
  `lab:down` before it a proxy that runs with a closed gate stays closed
  (`GateDebt`);
- `verify-openobserve-recovery.mjs:169-172`, `824` runs `lab:streams:provision` twice
  on the main lab and requires NO_CHANGE only of the second run: the first writes
  the stream settings of the company's lab;
- a burst of more rows than the batch limit within one look-back may leave rows
  without a record, and a look-back of ten minutes covers retries of 30, 120 and
  300 seconds once each, not a batch that is retried longer;
- a schema or search answer that cannot be read makes a restarted sync ready;
- options that do not validate, passed while the package is active, drop the
  adapter and leave the state active;
- `lab:up` finds a container "already current" although a token was replaced: the
  set of tokens to restart for lives in the command's memory and an interruption
  loses it. An account token whose file is lost while OpenObserve knows the
  account makes every later `lab:up` throw until `lab:purge`;
- a leaf rotation interrupted between key and certificate leaves a pair that does
  not match and is judged valid, as is the leaf of an earlier CA; a `lab:up` that
  renews the leaf does not reload a proxy that is running;
- `ensurePipeline` deletes before it creates, and deletes the company's pipelines
  on the two streams as well;
- `verify-runtime-control.mjs` promises to "Always leave the lab in a known-good,
  fully-open state"; the restoration is skipped when a check throws. The kill
  switch under load of the resilience checks has no `finally` either, and its
  disposable alert stays when the restart matrix throws. The chain's light reset
  purges queues; it clears neither hold, document nor stopped services, and a
  purge that fails is ignored. A killed script leaves its lock file;
- `verify-service-scope-isolation.mjs` disables a scope and enables it again with
  no `finally`: when a call in between throws, the scope stays off and, since a
  kill of any scope holds the whole delivery, so does the worker, for every later
  gate. The sanitization verification's failing probe function and pipeline stay
  in the same way, and the answers to their deletion are not read;
- the kill-switch cycle of `run-resilience-soak.mjs` counts a batch accepted with
  the switch on as accepted, not as a failure;
- the quick delivery proof, the token rotation and the soak compute what was
  delivered by subtraction: the loss they report is zero by arithmetic, and the
  quick proof passes with its batch in a retry queue. The token rotation reads a
  broker that cannot be reached as empty queues; the soak asks OpenObserve for
  one new row of each kind. `ProvedMeansDelivered` therefore names the gates that
  ask for the batch itself;
- `verify-openobserve-recovery.mjs` restores into an archive whose data directory
  was overlaid; what is then found is any of three outcomes. It computes
  `finalOverallHash` and `secondApplyAllNoChange` and requires neither. The
  target of the first restore is only asked for a marker of its own. The
  clone volume of a proof that throws stays for good (its name has the run's
  identifier), and a project whose health wait throws stays up until a later
  proof removes it. `store_original_data` is part of
  a stream's hash and is never restored;
- `streams/drift.js:44-50` says a truthy `store_original_data` is always
  SECURITY_DRIFT; `diffSettings` lists nothing where the manifest wants it too; `distinct_value_fields` with an extra name or in another order
  never converge, since names are only added;
- `evaluatePolicySample` leaves the count of healthy samples as it is when a
  sample neither breaches nor recovers: healthy samples need not be consecutive;
- `docs/operations-runbook.md` restores "the previous runtime config revision
  from history"; the history holds hashes, no documents.

## 6. What is not modelled, and why

- Payload contents, sanitization, JSON schemas, URL handling: pure functions of
  strings; the models choose their verdict (`RejectRequest`, `RejectPayload`,
  `Poison`, `RejectInvalid`, `ConfigLoaded` or `InitFails`).
- The audit log (`appendAudit`), counters, status snapshots, operational
  summaries: they only report.
- The control directory is read in one step. The files are read one after the
  other; the difference shows only if two writes fall between two reads.
- The gate of a page's kill switch is left out of `BrowserLifecycle` and the
  lifecycle out of `PageControl` (which may start and stop its loop at any time
  the lifecycle could): their only common state is whether a document was
  applied. The catch-all for an exception inside `runInitialization` is left out
  as well.
- `lab:up` writes a fresh inactive global document: `LabProvisioning` has it as
  one of its steps, `LabKillSwitch` does not compose with it.
- Of the lab in `LabScripts`: detached daemons, dead-letter queues (no script's
  outage reaches the attempt limit), the lock file; a paused container is a
  stopped one; there is one browser engine; reverse proxy, browser application
  and alert sink are always there; the batches that a rate-limit burst gets
  accepted are not followed. Questions whose answer depends on nothing that is
  modelled are `Probe` steps, which may find something or throw.
- What the sanitization, correlation and session-metadata verifications find in
  the rows, and the containers' metrics of the resilience soak: of them only what
  they do to the lab, and that rows can be had, is modelled. The soak's turns have
  the order of its default duration, with one sample between two of them.
- Lab verifications outside those scripts (the Flask consumer, systemd, the
  OpenObserve ingestion, the security scans): they look at files, at services of
  their own or at rows, and are probes of the chain or not part of it. Those of
  streams, dashboards and alerts are probes there and have models of their own.
- In the recovery proof `lab:streams:provision` treats the streams that exist, the
  canonical ones do. A folder whose dashboards cannot be listed is modelled
  (`FolderUnlisted`), though not in the default folder of the run's labs, and
  other lists that fail are a failing call; an alert whose definition cannot be
  read and settings exported when the list of streams cannot be are left out, as
  is a destination skipped for a missing secret (no path reaches it with the
  proof's inputs).
- Contents of dashboards and queries: a version and what the hash stands for.
- RabbitMQ's and OpenObserve's internals. `Transfer` may lose a message because
  dead-lettering is at-most-once by default; this is an assumption about
  RabbitMQ, and the lost messages are kept in `dropped` so that the properties
  say so.
- Of a session's record, everything but the time it spans: counts, attributes,
  the conversion to milliseconds and the cap of eight hours.
- `publishConfig`: validation, then document, history and audit entry. Nothing in
  the program reads the history, and no document says what an interruption or two
  publishers may leave.

## 7. Plan

Done, in this order: the delivery pipeline with its abstract specification and
proofs; the worker's control; control documents, lab and page; the browser
lifecycle; session metadata sync; starters, streams and alert policies; logical
export, restore and the recovery proof; lab scripts, acceptance chain and
provisioning.

The proofs came last: the pipeline's refinement and attempts, worker, control
documents and page, session sync, lifecycle, starters, streams, policies,
provisioning, recovery, and at the end the scripts and the chain.

Next:

1. The lab's counting of revisions and the control plane's in one deployment: what
   of `RevisionsGrow` is left when both write.
2. The lab's kill switch inside the scripts' lab, where it is now one step per
   write without the lock.
3. `publishConfig`, and the pure algorithms: the back-off ladder and its jitter,
   the duplicate-key scan, the resolution of the browser's configuration.
