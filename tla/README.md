# Kates: TLA+ models, model checks and proofs

Kates runs Kafka benchmarks and chaos experiments. A Quarkus service, the Kates
API, creates runs, drives their workers, stores them in PostgreSQL and tells
webhooks how they ended. The `kates` command line installs the stack on a
cluster, builds migration labs, drives the API, and serves it to agents over
MCP. This directory models the parts of both where several threads or processes,
the database, Kafka, a Kubernetes cluster and interruptions meet.

Java paths below are relative to `src/kates/src/main/java/com/bmscomp/kates/`,
Go paths to `src/cli/`, unless they start with `src/`. `PROJECT.json` holds the
same information for tools: the components, the runs, the source lines behind
every definition (`map`), the mutants, the finding, the hazards and the theorems.

## 1. Inventory

### The API (Java)

| Component | State it keeps | Operations | Hard about it |
|---|---|---|---|
| Run orchestration (`engine/TestOrchestrator`) | the semaphore and `permitHolders`, `activeHandles`; the `test_runs` row through the repository | create (plain run or scenario), submit, `refreshStatus`, `cancelTest`, `deleteTest`, `settle`, `reconcileActiveRuns` every 5 s, `recoverOrphans`, `shutdown` | a submission thread, request threads, two schedulers and a shutdown thread act on one run with no common lock; every write is of something read earlier |
| Timeout reaper (`engine/TestTimeoutReaper`) | none of its own | a sweep every 60 s: list, test the deadline, read, settle, compare-and-set | what it listed is stale when it acts |
| Run repository (`service/TestRunRepository`) | `test_runs`, `outbox_events` | `save`, `saveIfStatus`, `delete`, each queueing an event in its transaction | a plain save inserts; a conditional one only updates |
| Native backend (`engine/NativeKafkaBackend`) | a status and a stop flag per worker | `submit`, `poll`, `stop`, the worker's own thread | a stop only sets a flag; DONE is set before the post-conditions are applied |
| Outbox (`service/OutboxPoller`, `service/OutboxCleaner`) | `outbox_events`, `outbox_dead_letters`, `inFlight`, the executor's queue | poll every 2 s, acknowledgement callbacks, retire, prune | sends are asynchronous, callbacks are late, may fail or be lost |
| Webhooks (`webhook/WebhookService`) | `webhook_registrations`, `processed_events`, `webhook_dlq`, a thread per call | consume, mark, fire, retry, park, register, unregister | the record is marked before the webhook is called, and the call lives in memory |

They interact through the database (rows and the outbox), through `settle` and
`refreshStatus`, which every thread may call, and through the Kafka topic
`kates-test-events`, which the API writes and reads itself.

Correct: an ended run stays as it ended, is announced once, has no task left
open and no worker left running; the cap on concurrent runs is neither lost nor
exceeded; every run ends; every queued event is published or kept as a dead
letter; a webhook hears of an ending, once.

### The command line (Go)

| Component | State it keeps | Operations | Hard about it |
|---|---|---|---|
| Deploy pipeline (`cmd/deploy_scheduler.go`, `deploy_components.go`, `deploy_recover.go`) | helm's releases on the cluster; channels per component | deploy, skip, install, wait, repair what a dead deploy left | goroutines under dependencies; a killed helm leaves a release nothing may touch; a webhook opened for a moment |
| Version plan (`cmd/deploy_versions.go`, `pkg/strimzi`, `pkg/kafkaversion`) | operators, CRDs, Kafka and its metadata version on the cluster | plan, compare, replace CRDs, install | years of deploys of different releases; readings that fail; operators of other owners |
| Migration labs (`cmd/migrate*.go`, `pkg/migrate`) | sources, mirrors, topics, client pods on the cluster, nothing in memory | up, run, verify, cutover, rollback, down, and the mirror and source commands | the next command finds the lab by its labels; every phase may fail; records of the user are on the same target |
| MCP server (`cmd/mcp_guard.go`, `mcp_server.go`, the `mcp_tools_*` files) | slots, rate tokens, the pinned cluster | calls of tools and resources | a handler outlives its deadline; the URL is a forwarded port that may come to reach another cluster |
| Local state (`cmd/root.go`, `portforward.go`, `deploy_chart_verify.go`) | the config file and its lock, forwarded ports, chart cache and markers | `ports`, `deploy`, `watch`, `ctx ...`, chart pulls | several commands at once, which read, work for seconds and save |
| Commands (`cmd/*.go`, `pkg/detect`) | temporary things, runs they start | some 170 commands | early returns, interruptions, questions, partial failures |
| Lab screen (`tui/lab.go`) | the screen's model | run, warm-up, median, sweep, cancel, quit | answers of cancelled runs cross those of new ones |
| API client (`client/client.go`) | none | 92 requests, retries, the wait for a disruption | an answer may be lost after the request was carried out |

They interact through the API (every command calls the client), the config file
(which tells each command its API and key) and the cluster. Correct: a
deploy that says it succeeded did, and running it again finishes one that died;
a lab takes nothing from the user and leaves nothing behind; a tool never gives
out another cluster's data as the pinned one's; nothing is destroyed without
consent, no failure is swallowed and no run is lost to its user.

### Not modelled

| Component | Correct when | Why not, or when |
|---|---|---|
| Disruption plans (`disruption/*`), resilience runs, chaos providers | one plan per target; every fault is rolled back once; recovery undoes only what a dead process left | next Java module, `DisruptionPlan` |
| Schedulers (`schedule/TestScheduler`, `disruption/DisruptionScheduler`, `service/SchedulerLeaseService`) | one firing per minute a schedule matches | `SchedulerLease` |
| Audit trail (`audit/AuditChain`) | a walk beside appends reports no break | `AuditChain` |
| Creates with an idempotency key (`api/TestResource`) | one run per key, and a failed create can be retried | `IdempotentCreate` |
| Run retention (`service/RunRetention`) | deletes only runs that ended long ago | with `RunLifecycle`'s delete |
| Integrity verification (`engine/AckTracker`, `DataIntegrityVerifier`) | counts lost and duplicate records | pure operators against reference definitions |
| Operator (`src/operator/crates`) | one run per generation, whatever call is repeated | `OperatorReconcile` |
| Trogdor and CDC backends | as any worker | adapters; their statuses are those of a worker |
| Reports, trends, exports, SLA, compliance, security (API) | numbers and rules | no protocol of steps |
| Language server and linters (`cmd/lsp*.go`, `*_lint.go`) | the right diagnostics for a text | pure functions of one document |
| Watch screens, dashboards, output, themes | they show what was read | layout |
| Charts, dashboards, docs, editors, agents | | configuration and text |

## 2. Modules

    RunLifecycle    <- MCRunLifecycle            RunLifecycleProofs (TLAPS)
    EventDelivery   <- MCEventDelivery           EventDeliveryProofs (TLAPS)
    DeployComponents <- DeployPipeline <- MCDeploy
    VersionPlan     <- MCVersionPlan             DeployProofs (TLAPS), of both
    MigrateLab      <- MCMigrateLab              MigrateLabProofs (TLAPS)
    McpTools        <- McpServer <- MCMcpServer  McpServerProofs (TLAPS)
    LocalProcesses  <- MCLocalProcesses          LocalProcessesProofs (TLAPS)
    LabSession (abstract)  <=  LabScreen <- MCLabScreen
                                                 LabScreenProofs (TLAPS)
    ApiEndpoints    <- ApiClient                 ApiClientProofs (TLAPS)
    CommandSteps    <- CommandLine
                    <- CmdRuns, CmdCluster, CmdDetect <- CmdDeploy <- CmdReports <- CmdMigrate
                                                            all of them <- MCCommandLine

The MC modules give values that a `.cfg` cannot write. A definition marked
*Mutant* is a plausible wrong version of the definition below it; only the
mutation runs use it.

### RunLifecycle

One API process, its database and its workers. A step is one database
transaction, one access to a shared map, or one status change of a worker.

* `row[r]` is the run's row: its status and its tasks' statuses. `outbox[r]` is
  the history of events queued for it, which `EventDelivery` takes up.
* `permits`, `holders`, `handles` are `concurrencyGuard`, `permitHolders` and
  `activeHandles`.
* `worker`, `stop`, `produced` are the backend: a worker's status, its stop
  flag, and whether the run's producers have sent anything, which
  `abortStrandedConsumers` asks. `CHECKING` and `STOPPED` are two kinds of
  DONE: set before the post-conditions are applied, and set because of a stop.
* `sub[r]` is the submission thread of `executeTest` or `executeScenario`:
  `Create`, `FirstSave`, `SubmitTask`/`SubmitTaskFails`/`SubmitThrows`,
  `StoreSubmission`, `Register` and, when it finds its run already ended or
  gone, `SubmissionSettles` and `SubmissionStops`.
* `act[a]` is any other thread, with what it has read: `Refresh...` for
  `refreshStatus`, `Cancel...`, `Delete...`, `Reap...`, with `SettleDrops` and
  `SettleStops` for the call of `settle` inside each. The schedulers' ticks
  have no skip policy and may overlap, so reconcilers and reapers are sets.
* `clock[r]` has three values: before the submission timeout, past it, past the
  run's deadline. This takes the submission timeout (120 s) to be shorter than
  any planned duration plus the grace (300 s), as with the defaults.
* `up` and `down` are the process: `Crash`, `RecoverOrphan`, `Ready`, and the
  steps of `shutdown`. `ActThrows`, `FirstSaveThrows` and
  `StoreSubmissionThrows` are database calls that throw.

Abstracted: specs, topics and measurements; the extra `-submission` task that
recovery and the reaper add to a run with none; live metrics, heatmaps and
events other than the endings. Not modelled: the optimistic-lock exception of
`refreshStatus` (the conditional save holds the row's lock), backends that
vanish, and several replicas (the chart refuses a second one,
`src/docs/book/12-deployment.md`). `recoverOrphans` runs when the bean is first
used; the model lets nothing else run before it.

Each run id is created at most once, as ids are fresh UUIDs. A first start may
find `STOPPING` rows of older versions (`LegacyRow`), as the reaper's comment
says.

### EventDelivery

What becomes of one queued event, named by its run and status.

* `queued`, `order`, `attempts`, `dead` are the outbox rows and dead letters;
  `flight` is `inFlight`; `deletes` and `fails` are the callbacks that wait in
  the executor.
* `topic`, `position`, `committed`, `consumer` are the topic, the group's offsets
  and the thread in `onTestEvent`. The broker and the commit of offsets are
  external, modelled from how the code relies on them: a send that is reported
  failed may have been written, and a group may come back without an offset
  (`auto.offset.reset=earliest`).
* `ledger` is `processed_events`; `born` an event's timestamp; `now` the clock,
  in units of the retention.
* `hooks` and `delivery` are the registrations and the calls of each.

Not modelled: rebalances without a restart, the topic's own retention, several
partitions (the code creates one), and a `saveToDlq` that fails for a blocked
URL. An executor job is one step, as its transaction is. `Tick` does not
come between the two checks a handler makes of an event, which are
milliseconds apart where the retention is days.

### DeployComponents, DeployPipeline

`DeployComponents` is the component table: what each component waits for, how it
is told to be installed, its install as a sequence of kinds of steps, its wait.
`DeployPipeline` runs it. `st[c]`, `step[c]` are a goroutine; `opened` and
`finished` the two channels of each component; `stopped` and `interrupted` the
two contexts. `release[c]` is helm's record, *pending* while helm runs: a helm
run is two steps, so that Ctrl-C (`Interrupt`) and the death of the process
(`Kill`) can come between them. `webhook` is cert-manager's failure policy.
`recoverStuckReleases`, `recoverStuckRelease` and
`restoreFailOpenCertMgrWebhook` are what the next deploy begins with. A pending
release that was never in service is uninstalled and one that was is rolled back,
except for stateful charts: those the deploy refuses, and the user rolls
them back (`UserRollsBack`). What the skip test finds is a release that is deployed
or, for Kyverno, controllers that are ready whatever helm says of the release
(`deploy_components.go:931-933`); `spared` are the components left alone so. Values, helm
arguments and the cluster's own checks are left out.

### VersionPlan

A deploy is `resolveVersionPlan` (choose operator and Kafka, read what is
installed, compare), then the replacement of empty pre-v1 CRDs, the chart's CRDs, the
operator, the primary Kafka. `stored` is every version the CRDs have ever stored objects
in; each deploy applies the CRDs of its own operator over those there
(`applyLocalStrimziCRDs`), which adds that operator's, and the API server refuses CRDs
that drop one, which ends the deploy. Between deploys a newer or older platform release
may be used (`OtherRelease`), an operator of another owner may come and go, the stored
versions may be converted, and the cluster be cleaned, in whole or, when steps of
`kates clean` fail, in part. Versions are numbers: an operator's, and ten times the line
plus the patch for Kafka. A window has any number of lines: `WindowAssumption` says only
that the windows of later operators are shifted upwards.

### MigrateLab

Per lab `world[l]` is what it has in the cluster and on disk, `pr[l]` the command
at work on it with the phases it has left; `topic[t]` says who made a topic and
whether it holds records, `ckpt` the checkpoints topic that mirrors share. A
phase is an action, a failure of it another outcome; `Tear` is a step of the
teardown, which goes on after errors. `Reconcile`, `Report` and `Replicate` are the
Strimzi operator and the mirror: they write the connectors' state, report it
later, and copy. `held[l]` is what the command at work found with records and must
not lose; `lost` and `cut` record what a command took that was not its own. Labs may
mirror one topic, and nothing stops two commands from checking it at once.

### McpTools, McpServer

`McpTools` says for each tool and resource which API paths it reads, stage by
stage, which it cannot do without, and whose answer names its cluster.
`McpServer` takes calls through admission (a slot, a rate token), the pin check
and these reads. `work[c]` is the handler's goroutine, which may outlive
`answer[c]`. `api` is the cluster the URL reaches, and may change between any two
requests.

### LocalProcesses

`cfg` is the config file, `lock` its lock, `secret` the key in the cluster, `port`
who listens on the API's local port, `cache` the cached chart, its marker (and whether it
tells of the build provenance) and what the registry serves; `pr[p]` a process, its
command and what it has read. The steps of `updateConfig` are `readConfig` (lock and
read) and `writeConfigFile`.

Another program may take the port whenever it is free, the time between the look of
`takenLocalPorts` and kubectl's bind included; `verifyPortForwards` then finds a port that
answers, and takes whoever answers for the API, as the comment at
`portforward.go:150-152` says. `raced` remembers that, `answered` who it was. "deploy
ports" is the forwarding at the end of `deploy --port-forward`: it stops the others, and
no later `kates ports` stops it, as `isKatesPortsCommand` does not know its command line
(`portforward.go:350-364`). A `kates ports` whose pgrep or ps fails (`:199-202`) leaves
others running, which `missed` remembers.

A pulled chart is checked for its signature and then for its provenance
(`verifyChart`, `verifyProvenance`), by a process with cosign; attestations that cannot be
read leave the provenance unchecked. `crossed` remembers that a checked and an unchecked
chart were put in at once; it is cleared by a pull that has the cache to itself, a
checked one when it moves the old chart aside, an unchecked one when it removes the
marker.

### CommandSteps, CommandLine and the Cmd modules

A command is a term over a small vocabulary (`CommandSteps`): reads that must
succeed or may fail, changes, questions, temporary things under a defer, runs
that are begun and followed, branches and loops. Each Go function of a command
is one such definition, with the name it has in the source; a branch on data that the
model does not hold is `Either`. `CommandLine` interprets the terms: any call may
fail, the first signal cancels the context of a command that asked for one and
kills one that did not, and a second signal kills. A call that fails, or is cut off, may
have been carried out all the same: so may a creation, whose object is then *unheard*, and the
start of a run, which is then under way with no id told. `Destroy` is a change that removes
what the user has. The Cmd modules contain no state: they are the translation of the
commands. What the deploy pipeline removes in repairing a cluster (CRDs without objects, the
release of the old operator after the question, stale objects at `deploy.go:1012`) is in
`DeployPipeline` and `VersionPlan` and not a `Destroy` here.

### LabScreen, LabSession

`chain[k]` is the background work of run k: its create, its polls, one at a time,
and the message on its way. `Update`'s handlers are the actions; the fields of
`LabModel` are variables with their names. `LabSession` is the promise: one
measurement at a time, none of a run that was given up, an end to each, liveness
included. `LabScreen` implements it under
`busy <- running /\ ~quitting`, `measured <-` the recorded runs and the results of a
median under way, `givenUp <-` the runs the lab asked the API to cancel. Its safety half,
`InTurn`, is what TLAPS proves; TLC checks all of `Session`. Which of two equal
middle values `computeMedianIteration` keeps is left open, as sort.Slice leaves it. Left out:
pins and views, the clock, live counters, loading and saving a session.

### ApiEndpoints, ApiClient

`ApiEndpoints` lists every method's verb, whether a caller's name goes into its
path, whether it is repeated, and what limits it. `ApiClient` makes one call:
`doRequestWith`'s attempts with any of them lost either way, and
`awaitDisruptionFrom` with its count of consecutive failures and its budget.

## 3. Runs

| Run | Instance | What it shows |
|---|---|---|
| `run_safety` | one run, a client, a thread that is the reconciler and the reaper by turns, one throw, crash or shutdown (1.1 M states) | `EveryoneIsToldOnce`, `EndIsKept`, `PermitHeldWhileGoing`, `NoOrphanWorker`, `PermitConservation`, `EndedRunHasNoUnfinishedTask`, `TypeOK` |
| `run_liveness` | a throw, a client, one scheduler thread | `EveryRunEnds`, `PermitComesBack` |
| `run_cancelled_done` | as `run_safety` without reaper and failures | a violation, below |
| `delivery` | a poison row before an ending, a window of one, one restart or throw, a clock past the retention | `FiredOnce`, `NothingDropped`, `EndingIsTold`, `TypeOK` |
| `deploy` | four component flags with their dependencies, two at a time, two failures of five kinds, a cluster that is empty or has earlier releases (445,000 states) | `SuccessIsComplete`, `PendingNeedsASignal`, `WebhookClosedOutsideBypass`, `RerunsConverge` |
| `versions` | three operators with overlapping windows, the second the first with v1 only and with three lines of Kafka (161,000 states) | `KafkaInWindow`, `NoKafkaIsLost`, `KafkaKeptUnlessAsked`, `NothingGoesBack` |
| `migrate` | any three commands out of twelve on a lab, beside a second lab; one failing call, signal or kill (1.2 M states) | `OthersAreSpared`, `NothingIsLeftBehind`, `StoppedMeansStopped` |
| `mcp` | a call of every shape of tool beside two short ones, two slots, one token, a URL that moves once | `AdmissionIsExact`, `AnswersAreOfThePin`, `EveryCallIsAnswered` |
| `commands` | every command, two failures, two rounds of loops, any answer, a signal or a kill anywhere (228,000 states) | `ConsentIsKept`, `NothingLeftOpen`, `FailureIsTold`, `RunsAreAccountedFor` |
| `local` | a `ports` beside another, the forwarding of a deploy, a deploy or a watch, and the user's own command; or three pulls, two with cosign; one fault (2.8 M states) | `PortsAreItsOwn`, `MarkedChartIsSigned`, `ConfigIsTheUsers`, `DeployedKeyWorks` |
| `lab` | three runs, a warm-up, medians and sweeps, one poll before the deadline | `WatchedWhileRunning`, `RecordIsSound`, `LabIsASession` |
| `client` | every method, three attempts, five failed polls, seven polls | `ChangedAtMostOnce`, `WaitTellsTheTruth` |

Several properties are conjunctions of named parts, and each part has its own
comment in the module: `EveryoneIsToldOnce` is `EndingToldOnce` (webhooks) and
`AnnouncedOnce` (event stream, metrics), `OthersAreSpared` is `NoDataLost` and
`CheckpointsKept`, and so on. A `TypeOK` that no run lists states the types of its
module for the reader.

Bounds. One run is enough for the races on a run: runs share only the permits,
of which the proofs speak for any number. A client and a
scheduler's thread, each at any step of any of its operations, beside the
submission and the workers make every pairwise race of writers (`Reap` against
`Cancel`, two `Refresh`es, any of them against a late submission). `Window` and
`MaxAttempts` are small so that the window is full and rows are retired;
`MaxTime` passes `Retention`, so that the ledger forgets what the topic still
holds. The deploy's flags are chosen for the table's shapes (a dependency, a
kept release, the bypass, an upgrade after it); two places make components
wait; two failures are one that breaks a deploy and one that breaks its repair. Two labs
are what one can do to the other, and three commands are create, act, remove.
Tools that differ only in the number of their reads behave alike, so the shapes
of `MCMcpServer` stand for them. Two failures in a command are a failure and one
in what it does about it. A wait of seven polls has room for five failures in a
row, and for four, a success and more.

Deadlock is checked for the API's runs, where a client or a registration can
always act. The command line's systems stop when the commands, calls or polls
that their bounds allow are over, so their runs do not check it.

Fairness. API: threads that have started go on, and the two schedulers come
back to every run they should act on (strong, since a run may leave and
re-enter the state they look for while another thread works on it); time
passes; a process that starts recovers its orphans; the poller polls, every send
is answered (the producer has a delivery timeout), the executor runs its jobs,
the consumer goes on and a call ends (it times out). Nothing is assumed of
workers, clients, brokers, receivers or failures. Deploy: commands end, each
having a timeout, goroutines are scheduled, and the user deploys again until it
succeeds and rolls back what the deploy names (strong: a later run may come
between). MCP: a goroutine goes on unless its read hangs, and deadlines pass.
Local: a process that is not killed takes its next step. Lab: every command
comes back (requests have time limits) and every message is handled. The
other models claim no liveness and assume none.

### What the code does not keep

One run ends in a violation of what a comment says. `run_cancelled_done`: a
cancel stops the workers before it writes; a poll that already had the handles
reads the stopped workers as DONE and stores the run DONE, and the client is told
that the run could not be cancelled.

The others are in the models, and the properties say where they stop.

API:

* The reaper tests the deadline of the status it listed and fails the run it
  reads next: a run stored RUNNING in between is failed after the submission
  timeout (`engine/TestTimeoutReaper.java:92`).
* The shutdown's plain save inserts a run that was deleted since it was read
  (`engine/TestOrchestrator.java:1005`); `EndIsKept` leaves shutdowns and throwing
  calls out.
* A poll between the submission's write and its `registerHandles` fails a
  stranded consumer it has no handle for, ends the run and drops the handles
  just registered (`:673`); `NoOrphanWorker` is stated for the other tasks.
* An event is marked as handled before its webhooks are called from memory
  (`webhook/WebhookService.java:131`); a restart in between loses them.
* `src/docs/book/02-architecture.md` and a comment of `markStrandedAsFailed` say
  that recovery leaves PENDING runs to the reaper; `ORPHAN_STATUSES` has PENDING.

Commands, as the exception sets of `MCCommandLine`, each read off the source:

* `MCQuietFailures`: exit 0 after a part of what was asked failed
  (`connect test`, `doctor network` and `dns`, `detect`, `auto`, `helm test`,
  `scaffold export`, `init`, and `benchmark`, whose scorecard alone tells of it,
  `benchmark.go:77-83`).
* `MCUnasked`: a command that names what it removes asks nothing: `test delete`
  (`test.go:458-466`), `schedule delete` (`schedule.go:139-146`), `disruption schedule
  delete` (`disruption_watch.go:440`), `baseline unset` (`baseline.go:58-65`), `webhook
  remove` (`webhook.go:62-70`), `connect delete` (`connect.go:328-337`). `charts pull
  --images` removes the images of an earlier bundle (`charts_offline.go:386`). A write
  over a file counts as a change, not as a removal.
* `MCLeavesBehind`: the probe pods of `doctor`, the DNS probe and probe namespace of
  the collector when it is killed, the client pod of `migrate target`
  (`migrate_target.go:106-149`) and of `status --offsets`, `verify` and `cutover`, the
  half-written download of `upgrade`.
* `MCLeavesUnheard`: whatever these commands make on the cluster, when kubectl is cut
  off or fails after the API server has made it. The removal is set up only once the
  creation has succeeded: `createProbeNamespace` (`collector.go:1148`, before the defers
  at `1198-1209` and `1275-1283`), so an interrupted `detect` may leave a probe
  namespace; so with the pods of `doctor` and the client pods of `migrate`.
* `MCLeavesItsRun`: `connect test`; `flow run`, whose deadline leaves its run going
  (`flow.go:296`); `tune`.
* `MCChangesFirst`: `kyverno apply` installs before it asks
  (`kyverno_apply.go:65-95`); `deploy`'s picker switches the context or creates a
  kind cluster before the review, and then says "nothing was installed"
  (`deploy_picker.go:340`).
* A run whose creation failed may have been started all the same, and no command has an
  id to cancel or name it by: `test create` (`test.go:395-397`), `test apply`
  (`apply.go:263`), `replay`, `gate` (`gate.go:76`), `benchmark` (`benchmark.go:77`), `flow`
  (`flow.go:276`), `tune` (`tune.go:44`), `connect test`, the disruptions
  (`client.go:746`, `disruption_watch.go:185`) and `resilience run` (`resilience.go:141`).
  Only `apply` says so (`:266`). They end as failures, `benchmark` excepted.
* `watch` may show a late RUNNING over a terminal
  status that was answered first (`watch.go:160-205`).

Others of the command line:

* A lab whose custom resource is gone loses its topics' names, and `labDown`
  leaves them (`migrate_lab.go:1029-1034` against `1144-1210`); a lab with
  neither its mirror nor its source cannot be found. `verify` may pass on the records of
  an earlier one.
* Two `up` on one topic both pass the check (`migrate_up.go:239`), and one alone
  passes it over another lab's mirror when the mirrors cannot be listed and the topic
  is not there yet. Once the first mirror is gone the second lab has the topic for its
  own, and its `run` deletes what both have written: with a shared topic TLC finds
  `OthersAreSpared` violated by four commands (`up` and `mirror remove` of one lab, `up`
  and `run` of the other) and one failed call. `OnlySharedTopicsAreLost` says that
  nothing else is lost, and `DownAsksFirst` that `down` never does it unasked.
* A tool whose reads after the pin check reach another cluster, without any that
  names it, returns that cluster's data (`mcp_guard.go:736-760`); the property
  speaks of URLs that did not move, and of answers that name their cluster.
* Where the filesystem has no locks the config is saved without one
  (`cmd/root.go:197`).
* A program that takes the port between `takenLocalPorts` and kubectl's bind is taken for
  the API: the forward counts as active because something answers (`portforward.go:150-169`,
  `:271-279`), and the "ports" context follows. `EndpointIsNotAnothers` excludes such a
  program and no other. Two `kates ports` of which one overlooked the other go on together:
  `OnePortsAtATime` speaks of those that overlooked none, and not of a deploy's
  forwarding, which none of them finds.
* The error of a cancelled create can be
  taken for the next run's (`tui/lab.go:495`). Quitting while a create is under way leaves
  the run (`:180-184`).
* `--with-strimzi=false` leaves the operator out of the install and its window in the
  plan: Kafka is chosen by the window of the pinned operator, whatever
  operator of another owner runs it (`cmd/deploy.go:252`, `deploy_versions.go:207-262`). `KafkaInWindow`
  fails where `Selections` has FALSE; the run and the theorems have Strimzi selected.
* A process without cosign accepts a chart unchecked and leaves no marker of its own, but it may
  swap its chart in beside a marker that another process is about to write
  (`cmd/deploy_charts.go:301-322`). `MarkedChartIsSigned` holds until a checked and an unchecked
  pull put their charts in at once, and again from the next pull that is alone. It is about the
  signature: a chart whose provenance was never checked may stand beside a marker that tells of
  the provenance, when a pull dies between the swap and the mark. A rename that fails by
  itself, after which the old copy is put back (`:312-319`), is not modelled.
* A Kyverno whose upgrade by the scrape component failed (`deploy_monitoring.go:102-108`) is left alone by
  the next deploy, because its controllers are ready (`deploy_components.go:931-933`): that deploy
  succeeds over a failed release and never gives it its monitors. `SuccessIsComplete`
  demands of Kyverno that it is deployed or was found running.
* In a window of three lines a `--kafka-version` that goes back to the middle one sets the metadata
  version to the line before it (`MetadataFor`), which may be older than the running one;
  nothing checks it, and windows of three lines are what the tests parse
  (`window_test.go:40-57`). `MetadataNeverGoesBack` excludes just that deploy (`RolledBack`).
* A listing of operators that fails with NotFound counts as no operator
  (`deploy_versions.go:551`), and one of Kafkas that fails as no Kafka (`:646`):
  `unseen` marks such deploys, and the properties of `VersionPlan` leave them out. So it does where
  a Kafka outlived its operator, as a `kates clean` that fails half-way may leave it: the running
  Kafka is looked for through the primary's operator alone (`deploy_versions.go:641-646`).
* An interruption during the fifth failed
  poll is reported as giving up (`:807`).

## 4. Proofs

TLAPS proves the following for every value of the constants that satisfies the
assumptions named in the modules: any set of runs, tasks, threads, events,
processes, calls, charts, operators, any bound and any combination of failures.
Each module proves that its inductive invariant holds initially, that every
action keeps it (one lemma or step per action), and that it gives the property;
the action properties are proved from the same invariant.

`RunLifecycleProofs`, from `RunsAssumption`, `MaxConcurrentAssumption`,
`MaxFaultsAssumption` and `TasksAssumption` (every safety property of the module):

* `TypeCorrect`, `Spec => []TypeOK`. The part of the invariant about threads is
  needed for it: a thread that is about to write has a status to write.
* `PermitsConserved`, `Spec => []PermitConservation`. A permit is counted when its
  run is in `holders`; `Create` must therefore not meet a run that holds one
  already (`HoldersWereCreated`).
* `EndedRunsAreClosed`, `Spec => []EndedRunHasNoUnfinishedTask`. What is written was
  put together some steps earlier, so `TasksInv` also says that
  a thread about to write an ending (`ThreadsClose`), and the shutdown about to
  save (`ShutdownCloses`), hold no unfinished task.
* `EndStaysKept`, `Spec => EndIsKept`. A conditional write compares with what was
  read, so it cannot touch an ended row; a plain save can. `Shapes` says what a
  thread at each step has in its hands, `BornInv` where a row that has never been
  stored can still be stored plainly; then every step moves a row in one of five
  ways (`RowMoves`), and two of them need a throw or a shutdown, which
  `FaultsInv` counts.
* `EveryoneHearsOnce`, `Spec => []EveryoneIsToldOnce`. Between the write that ends
  a run and its announcement other threads go on. `TellInv` says that an ended run
  is announced, or exactly one thread or the submission is about to announce it;
  `OutboxInv` that an ending is the last entry of the outbox and the one the row keeps.
* `PermitIsHeld`, `Spec => []PermitHeldWhileGoing`. Those who give the permit back
  do so before they write the ending. `HeldInv` names them (`Ends`), `OnRows`
  says that what a thread goes by is still the row or has been overtaken,
  and `SubFit` and `ServingInv` place the submission and the shutdown.
* `EveryWorkerIsReachable`, `Spec => []NoOrphanWorker`. The hard case is the poll
  that ends a run and drops its handles: `TruthInv` says that the row, the
  submission and the polls call a task finished only when its worker has ended
  or has been told to stop, which is why consumers, whose poll fails without a
  handle, are excepted.

`EventDeliveryProofs`, from `EventsAssumption`, `TimesAssumption` and
`BoundsAssumption`:

* `TypeCorrect`, `Spec => []TypeOK`.
* `PublishesAtLeastOnce`, `Spec => []NothingDropped`. A row goes when a callback
  runs, long after the acknowledgement that queued it: the invariant adds
  `WrittenIsPublished`, that an event the broker has, or whose delete waits, is in
  the topic.
* `WebhooksFireOnce`, `Spec => []FiredOnce`. The ledger forgets, so it alone does not
  show it: `Remembered` says that an event already fired, or about to be, is in
  the ledger since a time not before its own timestamp, or is too old to be
  handled again. `KnownEvents` says that whatever is queued, in flight, in the
  topic or in the handler's hand has such a timestamp.

`LocalProcessesProofs`, from `LocalAssumption`:

* `LocalInvariant`, the inductive invariant: who writes the config has the lock and
  has read what is there (`LockInv`), a stored key is one the API accepts or the
  user's own (`MineInv`, `DecidedInv`), of the `ports` commands that overlooked no other
  one is past its takeover (`OneInv`), a forward that finds another program at its port
  was raced for it (`ForwardInv`), and a chart taken for signed is signed, a marker names
  a signed digest, and until pulls cross those who put charts in at once agree on the
  marker (`ChartInv`).
* `PortsStayItsOwn`, `Spec => []PortsAreItsOwn`, for finitely many processes (the
  property counts them).
* `MarkedChartsAreSigned`, `Spec => []MarkedChartIsSigned`, whichever processes find cosign.
* `ConfigStaysTheUsers` and `StoredKeysWork`, the action properties
  `ConfigIsTheUsers` and `DeployedKeyWorks`.

`DeployProofs`, of `VersionPlan`, from `WindowAssumption`. The theorems have the hypothesis
`StrimziIsSelected` (`Selections \subseteq {TRUE}`, what a deploy has by default);
section 3 says what a deploy without the operator does.

* `DeployInvariant`, the inductive invariant: the running Kafka fits the installed
  operator's window (`RunningInv`), and a plan that waits to be carried out
  still fits what it was made from (`PlanInv`); an operator that has dropped v1beta2
  meets no Kafka stored in it, whatever CRDs the deploys before it applied
  (`StoredInv`).
* `KafkaStaysInWindow`, `NoKafkaIsEverLost`, `KafkaIsKeptUnlessAsked`,
  `NothingEverGoesBack`: the run's four properties, for windows of any number of lines; the
  last with the exception of section 3 for a rollback that was asked for.

`McpServerProofs`, from `McpAssumption`:

* `McpInvariant`, the inductive invariant: the slots taken are the goroutines at
  work, abandoned ones included; a call past the pin check has read the pinned
  cluster, and its data is that cluster's while the URL has not moved.
* `AdmissionStaysExact` (`AdmissionIsExact`) and `AnswersStayThePins`
  (`AnswersAreOfThePin`).

`LabScreenProofs`, from its `LabAssumption`:

* `LabInvariant`, the inductive invariant: the counters of the warm-up, the median
  and the sweep against what is under way (`SeriesInv`), what the screen says of
  each run against the run's own chain of messages (`RunsInv`), and what the
  record holds (`HeldInv`: only runs that are over, and each once).
* `RunningIsWatched` (`WatchedWhileRunning`), `RecordStaysSound` (`RecordIsSound`).
* `LabTakesTurns`, the refinement step by step: every initial state and every step
  of the lab is one of `LabSession`'s, or a stutter, under the mapping of
  `Lab == INSTANCE LabSession`. The run `lab` checks the same with its liveness.

`ApiClientProofs`, from `ClientAssumption`:

* `CallInvariant`, the inductive invariant: what the server has done of the call's
  own request at each stage of it; failures in a row never outnumber the polls
  that brought nothing.
* `ChangesAtMostOnce` (`ChangedAtMostOnce`), `WaitsTellTheTruth` (`WaitTellsTheTruth`).

`DeployProofs`, of `DeployPipeline`, from `FlagsAssumption` and `BoundsAssumption`, over the whole
component table and any number of deploys one after the other:

* `PipelineInvariant`, the inductive invariant: a goroutine past its wait has its
  dependencies behind it (`OrderInv`), a channel is closed by who is done
  (`ChannelInv`), whatever failed or was stopped has an error or a signal behind
  it (`ErrorInv`), and helm's release is deployed once its step is past, unless an
  error is to be reported (`ReleaseInv`: the upgrade of Kyverno by another
  component may break it again) or Kyverno was left alone because it runs (`SparedInv`).
* `SuccessMeansComplete` (`SuccessIsComplete`), `OnlySignalsLeavePending`
  (`PendingNeedsASignal`) and `WebhookIsClosedAgain` (`WebhookClosedOutsideBypass`).
  That no chart is rendered without its monitors follows the chain from the
  chart's dependencies to the monitoring API through the table (`ScrapeTable`).

`MigrateLabProofs`, from its `LabAssumption` and `BoundAssumption`, for any labs,
commands, topics the target had, failing calls, signals and kills:

* `Inductive`, the inductive invariant. It relates what a command has still to do to
  what its lab still has, for which the programs are put in order once (`Ordered`,
  `NotAfter`: the mirrors are listed before the topics go, nothing writes a spec after
  the wait for its end). Then one invariant per lab, `LabInv`, of its command, its world
  and the owner of its topic: client pods are registered before they are made
  (`Clients`), a run's clean-up has ahead of it whatever is left (`Tidy`), a status is of
  the generation it says (`Reported`), a lab alone on its topic owns it once it may
  have a mirror (`Owner`), `down` past its guard has a consent or nothing to lose
  (`DownSpares`), `run` past its prerequisites nothing that was not its own
  (`RunSpares`). Every phase and teardown step is one of four edits (`Build`, `Take`,
  `Learn`, `NewOwner`) followed by one of two ways on (`Move`, `Break`).
* `TypeCorrect`, `Spec => []TypeOK`.
* `CleansUp` (`NothingIsLeftBehind`) and `StoppedIsStopped` (`StoppedMeansStopped`).
* `OnlySharedTopicsAreLost`: the checkpoints of others are kept, and records are lost
  only in a topic that several labs mirror. `NobodyElseLoses` (`OthersAreSpared`) is
  what follows where each lab has a topic of its own, as in the run.
* `DownAsksFirst`: a `down` adds nothing to `lost`, even on a shared topic.

Only model-checked: the invariants of `CommandLine`, which rest on the shape of the
command terms it walks (an induction over data); the violation run; and all liveness
(`EveryRunEnds`, `PermitComesBack`, `EndingIsTold`, `RerunsConverge`,
`EveryCallIsAnswered`, and the fairness that `LabIsASession` adds to
`LabTakesTurns`), which is out of the prover's reach, as is `ENABLED`. The proofs cover
instances that no run has: several runs, consumers, any number of failures, the whole
component table, any number of processes and calls.

## 5. Plan

Models: `DisruptionPlan` (launch, lease, steps, rollback and orphan recovery),
`SchedulerLease`, `AuditChain`, `IdempotentCreate` and `RunRetention` on the
run's row, `OperatorReconcile`.
