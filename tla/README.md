# Verification of radix-api

radix-api is the HTTP API in front of the Radix platform.  It is a Go server
without a database: what it "stores" are Kubernetes objects (RadixRegistration,
RadixApplication, RadixEnvironment, RadixDeployment, RadixJob, RadixBatch,
RadixAlert, Secret, ConfigMap, Deployment), and it shares them with the Radix
operator, with pipeline jobs, with other replicas of itself and with
`kubectl`.  Each HTTP request runs in a goroutine of its own, and a handler is a
sequence of API server calls with no transaction around it.  The interesting
questions are therefore about *sequences of calls*: what a handler has read is
stale when it writes, a write replaces more than what was changed, one call of
several fails, and the state a user is shown is put together from objects that
change at different times.

The modules here model those sequences, one action for each call that reads or
writes shared state, next to actions for the other writers.

## 1. Inventory

| Component | State it works on | Operations | What is hard |
|---|---|---|---|
| Component operations (`api/environments/component_handler.go`, `environment_handler.go`, `deployment_updater.go`) | `spec.components` and `spec.jobs` of the latest RadixDeployment (RD); the Kubernetes Deployment the operator made of each component | scale, reset, stop, restart of a component; stop, reset, restart of an environment or an application; restart of an auxiliary resource | JSON merge patch from a copy, without resourceVersion, replacing whole arrays; loops that go by a status the operator updates later; errors in the middle of a loop |
| Secrets (`api/secrets`, `api/buildsecrets`, `api/privateimagehubs`, `api/models/secret.go`) | Secret data and one metadata annotation | change a component, OAuth2, volume, key vault, client certificate, external DNS or build secret or the password of an image hub; list them | read, modify, update without retry; two keys that belong together; data and metadata looked up under different names |
| Event and log streams (`models/controller.go`, `api/pods`, `api/jobs/log_handler.go`) | the HTTP response, a mutex, a context; an open reader | find the pod of a log; copy the log to a client, with a keep-alive from a second goroutine | two goroutines write to one response; end of the stream and cancellation; logs that are followed and never end |
| Application registration (`api/applications/applications_handler.go`) | RadixRegistration, the deploy key secret | register, change, modify, delete, regenerate the shared secret and the deploy key | validation against a list that changes; merge patches; RetryOnConflict; polling for a secret the operator makes |
| Pipeline jobs (`api/jobs`, `api/applications/start_job_handler.go`) | RadixJob spec and status | start, stop, rerun; the shown status | commands race with the pipeline's own progress; a command repeated |
| Scheduled jobs and batches (`api/environments/job_handler.go`) | RadixBatch spec and status, active RD | stop one or all, restart, copy, delete, list, read | names with dashes are split from the right; loops over a list that changes, errors that are joined; a restart against a stop |
| Environment variables (`api/environmentvariables`) | two ConfigMaps | change variables | two objects written one after the other |
| Alerting (`api/alerting`) | RadixAlert, its Secret | enable, update, disable, read, for an environment or the application | secret first, alert second; polling for a status that lags behind; an alert deleted under an update |
| Environments (`api/environments/environment_handler.go`) | RadixEnvironment | create, delete, list, get | orphaned environments |
| Application overview (`api/applications/get_applications_handler.go`) | - | list applications with a bounded fan-out of goroutines | error handling across goroutines |
| Deployments, pods, events, metrics, build status (`api/deployments`, `api/pods`, `api/events`, `api/metrics`, `api/buildstatus`) | - (read only) | queries and conversions | - |
| Server start and shutdown (`main.go`) | three HTTP servers, a signal, a deadline | listen, shut down | a signal before a server listens; requests that never end |
| Request pipeline (`api/router`, `api/middleware`, `api/utils`) | - | routing, authentication, metrics | - |

Interactions: handlers call the Kubernetes API with the user's own credentials
(`Accounts.UserAccount`) or the service account; nothing is shared in memory
between requests.  The Radix operator reacts to what is written: it activates
RDs, makes Deployments, creates and prunes secrets, runs batches and jobs.
Neither the operator nor the API server is part of this repository: their
actions are modelled from what the handlers read and write, and the map marks
them as external.

What makes each component correct, in a sentence each, is the list of hazards in
`PROJECT.json`, each at the line where it bites and with the properties that
would catch it.

## 2. Plan

In order of importance; each step is a module with its MC module, its runs and,
where marked, its proofs.

1. `ComponentOperations` - the operations that stop and start production
   workloads, with the interference of operator, pipeline and other requests.
   Runs and eight theorems: *done*.
2. `AtomicSecrets` (abstract) and `SecretUpdates` (detailed, refines it), all kinds
   of secrets.  Runs and six theorems, the refinement among them: *done*.
3. `EventStream` - the two goroutines of the log stream.  Run and two theorems: *done*.
4. `PipelineJobs` - start, stop and rerun of RadixJobs against the pipeline.  Runs
   and five theorems: *done*.
5. `RegistrationUpdates` and `DeployKey` - the operations on a RadixRegistration,
   the shared secret and the deploy key.  Run and four theorems about the
   registration, one about the deploy key: *done*.
6. `EnvironmentVariables` and `Alerting` - operations that write two objects one
   after the other.  Run and four theorems: *done*.
7. `ScheduledBatches` - stop, restart, copy and delete of batches and jobs, and
   what the listings show.  Runs and four theorems: *done*.
8. `ApplicationOverview`, `PodLogs`, `ServerLifecycle` - the goroutines of the
   process.  Run and three theorems: *done*.
9. `AuxiliaryRestart` - restart of an OAuth2 proxy.  Run and one theorem: *done*.
10. Status functions of deployments, certificates and events as pure operators;
    creation and deletion of environments.  *Not begun.*

## 3. The modules

### ComponentOperations

State and correspondence:

| TLA+ | Code |
|---|---|
| `rds[e][d]` | the RadixDeployment objects of environment `e`, numbered in the order they were made; `override` is `ReplicasOverride`, `restart`/`jobRestart` the `RADIX_RESTART` variable, `gen` `metadata.generation`, `reconciled` `Status.Reconciled` |
| `kds[e][n]` | the Kubernetes Deployment of component `n`: owner annotation with the RD's generation, and replicas; that of a job is its scheduler, whose replicas nobody changes, and is left out |
| `orphaned` | environments that are no longer in the radixconfig |
| `req[r]` | the local variables of the goroutine that serves request `r`: the operation, the copy `snap` of RD `id`, and what its loops have still to do |
| `history[r]` | auxiliary: whether another writer came in between, and the generations at the start |
| `Submit` | `EnvironmentController` routes, `ScaleComponent`'s bounds test, the list of environments of the application operations |
| `ListComponents` | the first read of `StopEnvironment`, `ResetManuallyStoppedComponentsInEnvironment`, `RestartEnvironment` |
| `FindComponent`, `JudgeComponent` | `getRadixCommonComponentUpdater` (read again, find, list Deployments) and the checks of the operation |
| `PatchDeployment` | `patch` and `commit`: the difference of the copy before and after, applied by the API server to the RD as it is then |
| `CallFails` | any call that returns an error: a loop is abandoned |
| `CreateDeployment`, `ActivateDeployment`, `SyncComponent`, `MarkReconciled` | pipeline and operator |

A merge patch is modelled by what it does: an array is in the patch exactly when
the change altered it, and is then replaced whole (`Merged`).  Timestamps of
restarts (seconds, RFC 3339) are counted by the generation they produced; that
two restarts may fall into one second is therefore not modelled.  The status
texts that no operation tests are merged into "Consistent".

Bounds.  Replica counts are taken at both limits and one beyond each (-1, 0, 20,
21); components, environments and requests in the smallest numbers for which
one operation can disturb another (two of each), RDs one or two per
environment.  A stale copy needs one other writer, a loop that goes wrong two
components, a nested loop two environments; the larger numbers repeat these
cases.

Fairness.  `WF_vars(RequestStep(r) \/ CallFails(r))`: the Go scheduler runs every
goroutine and every API call returns or times out.  Nothing is assumed of the
operator, of the pipeline or of clients.

### AtomicSecrets and SecretUpdates

`AtomicSecrets` is what clients may rely on: a change takes effect at one
instant on all its keys and on no other, or not at all; success means it took
effect.  `SecretUpdates` models the code: `Accept` (the tests on the value and
on the configuration), `ChangePrivateImageHubSecret` (an image hub, whose
password is not tested; the passwords of all hubs are one secret, and a hub that
is not in it is refused), `ReadSecret` (read the object, change the copy and its
metadata annotation), `UpdateSecret` (an Update with the resourceVersion of the
copy, not retried, whose answer may be lost) and the operator's creation,
defaulting, pruning and deletion.  `ShownStatus` and `ShownUpdated` are what the
lists of secrets show.  A value is the name of the request that wrote it, since
no property depends on the text; the time is a counter that ticks at each
stamp, and revisions are bounded by `MaxRevision` for the operator's steps.

`Suffix`, `Declared` and `Kind` carry what differs between the kinds of
secrets: the names under which the metadata of key vault credentials is looked
up, the declared spelling of a build secret, and which values count as not set
(`NotSet`).
With two requests and two keys every interleaving of two read-modify-update
cycles occurs, with the operator in between.

### EventStream

`ReaderEventStreamResponse` copies a log to the client (pod logs, job logs and
pipeline logs all go through it).  `main` is the handler's goroutine: `Scan`
(`scanner.Scan`), `LockMain`, `WriteLine`, `FlushLine`, then the deferred calls
`WriteEnd`, `UnlockEnd`, `Cancel` in the order Go runs them, which is the reverse
of the order they are written in.  `ticker` is the goroutine that sends
healthchecks: `SelectTick`, `SelectDone`, `LockTicker`, `WriteHealthcheck`,
`FlushHealthcheck`; `select` may take any case that is ready.  `Tick` is the
`time.Ticker`, whose channel holds one tick, `Disconnect` the client or `net/http`
ending the request's context.  A flush releases the mutex, as the deferred unlock
of the same function does.

Fairness.  Strong for the two goroutines, because each may find the mutex taken
again and again and a Go mutex in starvation mode is handed to the one that has
waited longest; weak for `Scan` once the request is cancelled, because a
cancelled reader returns.  A log that stays silent while the client waits may
stay so for ever, and no fairness is assumed of it.

### PipelineJobs

| TLA+ | Code |
|---|---|
| `jobs[d]` | the RadixJob made as number `d`: its kind, the type of its reference, its image tag, the deployment it promotes, `stop` for `spec.stop`, `condition` for `status.condition`, `version` for the resourceVersion |
| `registered` | the RadixRegistration exists |
| `mapping[t][ref]` | environments the radixconfig builds reference `ref` of type `t` for |
| `deployed` | RadixDeployments of the environment a promote starts from |
| `req[r]` | the goroutine of request `r`: what was asked, the copy `snap` of the job |
| `Submit` ... `ReadApplication` | the triggers (`TriggerPipelineBuild` and its siblings) up to `HandleStartPipelineJob` |
| `ReadDeployment`, `ReadDeployments` | `getRadixDeploymentForPromotePipeline`: by name, else by the end of the name if only one has it |
| `StartJob`, `CreateJob` | `HandleStartPipelineJob`, `buildPipelineJob` |
| `ReadJob`, `UpdateJob`, `CopyJob` | `StopJob` and `RerunJob` |
| `Progress`, `DeleteJob`, `Configure` | operator, pipeline runner, other clients |
| `ShownStatus` | `GetStatusFromRadixJobStatus` |

Names of new jobs are drawn at random and are taken to be different (`made`
numbers them); so are the image tags drawn with them.  What the pipeline does
with its parameters is outside the repository, so parameters that are only copied
(component lists, image names, build flags) are left out.

`MaxVersion` bounds the changes of the operator and `MaxJobs` the jobs: two jobs
are a job and its rerun or two triggers, and four versions are enough for a job
to be created, stopped, moved on and ended around the read and the update of a
second and a third request.

### ScheduledBatches

| TLA+ | Code |
|---|---|
| `batches[b]` | the RadixBatch named `b`: its type, its component, the RD it was made from, and of each job whether it was told to stop and has ended.  A single job is a batch of type "job" that holds one |
| `requests[r]` | the goroutine of request `r`: the operation, the name it was given, the batch as looked up (`seen`), and the calls its loop still has to make (`todo`) with those that failed (`failed`) |
| `ParseScheduledJobName`, `GetRadixBatch`, `GetBatchJob` | the splitting of a job's full name and the lookups with their types |
| `Submit` | the twelve handlers of the environment controller; most look up the batch at once (`Lookup`) |
| `CallStop`, `CallRestart`, `CallCopy`, `CallDelete`, `CallFails` | the calls of the job scheduler's library, which is not part of the repository |
| `StopNext`, `StopEnds` | the loops of the four operations that stop many, which go on after an error and join the errors |
| `ListBatches`, `ListJobs`, `ReadBatch`, `ReadJob`, `ReadPayload` | the answers of the listings and lookups |
| `ScheduleBatch`, `JobEnds` | the scheduler and the operator |

A name is the sequence of the parts between its dashes, because the code splits
it at the last dash: `<<"b">>` and `<<"b", "x">>` are two batches, and the second
is also the full name of job `x` of the first.  A batch holds a nonempty set of jobs.
`ListedIsReachable` says "shown once" as: every job of every batch has exactly one
summary with its name.  The parameters of a copied job, the
replicas and the resources of a summary are left out.

### RegistrationUpdates

One application's RadixRegistration, with the identity that must survive (`appID`,
`creator`) and four fields that stand for all: one written by every operation that
may (`sharedSecret`), the two lists of administrators, and `owner` for the
fields that are handled like it.  The value of a field is the request that wrote
it, or empty.

`RegisterApplication`, `ChangeRegistrationDetails`, `ModifyRegistrationDetails`,
`RegenerateSharedSecret` and `DeleteApplication` are the handlers; `Get` reads and
builds the new object, `CreateRole` ... `Judge` are `validateUserIsMemberOfAdGroups`
with its deferred deletions, `Validate` the dry run, `Store` and `Remove` the
write.  `Cancel` is the client that goes away: every later call made with the
request's context fails, and the deferred deletions do not, since they have a
context of their own.  A write may take effect although its answer is lost, be it
because the client goes in the middle of it: a registration is then stored or removed
and the request answered with an error, and a Role or RoleBinding is made whose
generated name the request never learns, so that no deletion of it is deferred
(`applications_handler.go:652`).  `adrift` notes these and those whose deletion failed.
That Kubernetes collects a binding once the role that owns it is gone is left
out; the model keeps it longer.  What is built by a change for its dry run was never read
and bears no resourceVersion, so that dry run is refused only when there is no
registration.

### DeployKey

The secret with the deploy key, numbered by the keys there have been.
`RegenerateDeployKey` deletes it or updates it with the user's key (under
`RetryOnConflict`), `Poll` waits for the operator's new one, and `OperatorMakesKey`
is the operator, who need not.  Every call may fail, and a deletion or update may
have been done although it fails.  Running out of time is answered like success by
the code; `TimedOut` keeps the two apart.

### Alerting

`alerts` are the RadixAlerts of a namespace (the default one and one that somebody
else made), `secret` the version of the default one's secret, `reconciled` the
configurations that were ever in effect.  The handlers differ by scope only in
that those of an environment first check that it exists
(`EnvironmentRouteAccessCheck`).  `List` ... `AnswerConfig` follow the handler call
by call: `Apply` is the read of `applyRadixAlert`, `Create` and `UpdateAlert` its two
ways to write.  A configuration is identified by the revision that wrote it, because
no property depends on receivers and addresses.

### EnvironmentVariables

`data` is the ConfigMap with the values, `metadata` the one that remembers
what radixconfig.yaml says of changed variables, `config` what it really says.
`ChangeEnvVar` is the request, `Read` both reads, `ApplyConfigMap` and `ApplyMetadata`
the two patches: the first replaces the variables that differ from what was read,
the second the one key that holds all metadata.  `DesiredData` and
`DesiredMetadata` are the loop over the parameters.  `Folded` is what `EqualFold`
makes of a value.  `alone` is auxiliary: no two changes met and none failed half
way.  Names that are given twice in one request, and values that a new RD brings, are left
out.

### AuxiliaryRestart

`ListDeployments` judges the Kubernetes Deployment of the proxy, `GetDeployment` and
`UpdateDeployment` are the body of `RetryOnConflict` (`patchDeploymentForRestart`),
`SyncDeployment` the operator.

### PodLogs

`GetPodLog`, `GetOAuthAuxiliaryResourcePodLog`, `GetScheduledJobLog`,
`GetPipelineJobStepLogs` and `GetTektonPipelineRunTaskStepLogs` are the five handlers
that send logs; `ListPods`, `ReadStatus` and `GetPod` find the pod by labels, in
the status of a job, and by name; `OpenLog` opens the stream, `EndOfLog` is its end
and the deferred `Close`.  `StartPod`, `EndPod` and `Disconnect` are the cluster and
the client.  How an event stream is written is `EventStream`'s matter.

### ApplicationOverview

One item of work is one goroutine (`task`): an application in one of the stages
access, jobs and environments, or an environment of one, in a group that runs
inside the goroutine of its application.  `Go` is `errgroup`'s limit, `Send` a place
in a buffered channel, `Wait` and `WaitInner` the end of a group and the reading of its
channel (what an application hands over stays in the channel of its own group until
`Wait` reads it), `CallFails` an error of the API server or of a client that left,
`DeleteEnvironment` the world.

### ServerLifecycle

`listener` and `shutdown` are the two goroutines of each server (API, metrics,
profiler).  `Start` and `StopListening` are `ListenAndServe`, which returns
`ErrServerClosed` once `Shutdown` was called, even before it began; `Notify` is
`signal.Notify`, which comes after the servers were started: a `Signal` before it kills
the process, as Go does by default, and one after it begins the shutdown.  `CallShutdown`
and `ShutdownReturns` are `shutdownServersGracefulOnSignal`, `Timeout` its thirty
seconds, `MayExit` the wait for all of them.

### How the parts without common state are run

`ApplicationSetup` composes the registration, the deploy key, the alert
configuration, the environment variables and the auxiliary restart; `Reading` the
stream, the logs, the overview and the servers.  A behaviour is one of a single
part (`part`), each of whose steps leaves the variables of the others alone.  Nothing
is lost by that, because the parts share no variable and no property speaks of two of
them.  Both modules have the constants of all their parts, and theorems about them hold
for all their values; `MCApplicationSetup` and `MCReading` choose an instance, and start
the parts that are not chosen in one initial state, in which no action named in their
fairness conditions is enabled.

## 4. What the runs show

| Run | Instance | Question |
|---|---|---|
| `component_loops` | one environment, two components and a job, two requests out of a stop or reset of the environment, a scaling of one component and a restart of the job | do concurrent requests and a slow operator make a loop patch from a stale copy, skip a component, or overwrite one it was not asked to change? (`CopyIsCurrent`, `SoloEffect`, `BystandersKept`, `ArraysIndependent`) |
| `component_deployments` | one request out of every operation on components and the environment, two RDs of which the second may lack a component, a component that scales itself to zero | do types and overrides stay in range also when the latest RD changes on the way? (`TypeOK`, `OverrideInRange`) |
| `component_application` | two environments, orphaned or not, one request | do the nested loops reach every environment and end? (`SoloEffect`, `EveryRequestIsAnswered`) |
| `secret_pairs` | two secrets, a certificate and its private key, the password of an image hub, two requests, operator | does the read-modify-update cycle with its metadata implement changes that take effect at one instant, with values and times that belong together? (`ImplementsAtomicSecrets`, `StoredTogether`, `AcceptedIsDated`, `UpdatedNeverGoesBack`) |
| `secret_key_vault` | one request | known disagreement, section 6 |
| `pipeline_stops` | two jobs, three requests that build, stop and rerun, four versions | is a stop that was accepted in time, accepted once and shown; is a rerun free of the stop of the first job? (`StopsOnce`, `StopInTime`, `AcceptedStopShows`, `RerunsAreFresh`) |
| `pipeline_triggers` | every trigger with and without its optional parameters, two requests, every mapping of the radixconfig | do concurrent triggers and reruns keep their images apart? (`ImagesAreApart`) |
| `batches` | two components in two RDs (one of them dropped one component), a batch of two jobs and a name for another batch that is the full name of one of them; one request of any operation against one that restarts, the scheduler, jobs ending | does a stop of many report what it left running, does no operation reach beyond its name, do listings and lookups agree? (`StoppedUnlessReported`, `OnlyTheNamed`, `ListedIsReachable`, `TypeOK`) |
| `job_deletion` | the same | known disagreement, section 6 |
| `application_setup` | five parts, two requests each; see below | is nobody's change undone, is what is stored what was validated, is what is shown what is in effect, is everything temporary removed that was created with success, does the wait for a key end and never take the old key for the new one? |
| `variable_spelling` | its variables, two of whose values differ by case | known disagreement, section 6 |
| `reading` | four parts; see below | do goroutines keep apart, hand over everything, end, and leave nothing open? |

The parts of `application_setup`:

- registration (`RolesAreRemoved`, `OnlyRequested`, `WarningsAreAcknowledged`): one
  request of any operation with any combination of fields, one that modifies,
  deletes or makes a new secret; conflicts are retried once.  A client may go at any
  step, and any write may be done though it ends with an error.
- key (`AnsweredKeyIsNew`, `EveryRegenerationEnds`): two requests, three keys, two
  looks for the secret, two attempts.
- alert (`ReadyIsReconciled`, `OnlyEnablingEnables`): two requests of any kind each
  made once, a RadixAlert of the default name, of another, both or none.
- variable (`ConfigValueIsShown`, `OnlyNamedChange`): one request changes `v` and the
  reserved `x`, the other `v` and `w`; `v` has any value in radixconfig.yaml or none; three
  values.  Two changes are the first of a variable and one that takes it back or on.
- restart (`RestartOnlyStamps`): two restarts, three versions, two attempts, so that
  a conflict is met and an operator's write lies between two attempts.

The parts of `reading`:

- stream (`OneWriter`, `CompletedIsComplete`, `GoroutinesEnd`): three lines, three ticks.
- log (`ReadersAreClosed`): one request of any kind, two pods of one job, a proxy,
  and a step of a pipeline job, which start and end.
- overview (`AnswerIsComplete`, `NothingLeftBehind`, `EveryOverviewEnds`): two
  applications with two environments each; limits 1 for access, jobs and environments and 2
  for the outer group, so that goroutines wait for a place, and two inner groups run at
  the same time.
- server (`EndsInOrder`, `ShutdownEnds`): three servers, a signal at any time, also before
  it is handled.

`SoloEffect` deserves a word.  An HTTP API without transactions cannot promise
that an operation's effect is still there when it is answered, since somebody else
may have undone it.  What it can promise is that an operation no other *writer*
came between does the whole of what it says, however far behind the operator
is; `history` records who came between.  `BystandersKept` and `CopyIsCurrent` are
conditional in the same way, and `ArraysIndependent` is not conditional at all.
`StoppedUnlessReported` leaves out the batches that were made or restarted after the
request came (`since`) for the same reason.

Fairness is assumed of goroutines and time only, and each assumption is a definition
named `Fairness` next to its specification:

- `DeployKey`, `PodLogs`: weak fairness of a request's own steps.  Every call returns
  or fails; `EndOfLog` is enabled only for a log that ends by itself, whose pod has
  ended or whose client has gone, so no log that is followed is assumed to end.
  Neither the operator (a new key) nor pods nor clients are fair.
- `ApplicationOverview`: weak fairness of each goroutine and of the waiting one;
  the calls of a goroutine return.
- `ServerLifecycle`: weak fairness of the goroutines that shut down, of the clock and of
  `Exit`.  Requests need not end, and a server need not even have begun to listen.
- `EventStream` and `ComponentOperations`: section 3.

Requests are interchangeable (each starts with any operation), so
`component_loops` and the pipeline runs use symmetry over them.  Deadlock is not
checked because the systems may stop: every request answered, every bound used
up.

## 5. What is proved

All theorems hold for every value of the constants that satisfies the named
assumptions (`ConstantsAssumption`, `BoundsAssumption`, `RetriesAssumption`,
`PatchesAssumption`, `NamesAssumption`, `WordsAssumption`, `NamesAreParts`,
`PayloadsAssumption`, `DeploymentsAssumption`, `RequestsAssumption`,
`InitialAssumption`), which say no more than that
the sets have the right types, that special values are not ordinary ones, that
tags users choose are not among the drawn ones, and that names are nonempty sequences
of parts.  TLC evaluates each of them for every run.

`ComponentOperations_proofs`.  The inductive invariant is `TypeOK` together with
`OverrideInRange` and `RequestsTame`: a scale request that has passed its bounds
test carries a number in 0..20.  It is needed because the type of the replicas
of a Deployment (a natural number) follows from the override it is made from.
`TypeCorrect` and `OverridesInRange` come from it.  `CopiesAreCurrent` adds that an
undisturbed request's copy agrees with the RD from the moment it was read: the
only steps that change an RD's specification are patches and the pipeline's, and
each of them marks every other request in progress as disturbed; the loops drop
the copy before they go on.  `BystandersAreKept` follows from it, and
`ArraysStayApart` needs types only.

`SoloRequestsDoTheirWork` (`SoloEffect`) needs two more invariants.

- `Synced`: a Kubernetes Deployment is of no later generation than the RD it was made
  of, and if it is of the same, it has the replicas that RD asks for.  Whoever changes
  an override moves the generation, so this survives patches, the operator and the
  pipeline in any order (`DeploymentsSynced`).  It is why the status Stopped can be
  believed although it is read from a Deployment the operator may be slow to update: the
  generation test of `component_status.go` turns it down otherwise (`StoppedIsIdle`).
- `SoloInv`: what a request that nobody disturbs has done so far.  At every point of its
  loops each component in its scope has what was promised to it, except those it has
  `Left`: all of the environments still to come, and of this one the components to
  do and the one at hand (`Progress`).  Besides, what it has read is of the latest RD
  (`LatestIsRead`), and a request for one component has no loops (`Shaped`).  Every
  step of its own comes to an `Outcome` in which less is left: the components of an
  environment are listed, a component is skipped because its status says it needs nothing
  (by `Synced` and `CopyIsCurrent`), or it is patched from a copy that is current, by which
  nothing achieved before is undone (`PatchKeepsAchieved`).  Steps of others either
  disturb it, or change no more than what has been reconciled (`KnowledgeKept`).
  When the loops are through, nothing is left.

`EventStream_proofs`.  `HoldsMutex` (whoever is between Lock and Unlock holds the
mutex) is inductive and implies `OneWriter`: `OneWriterAtATime`.  `StreamInv` relates what
has been sent to how far the reader is: the lines in the response are those up to the
one last written, in order (`Sent`), and a last event is there only after the loop, when
`outcome` says why it ended.  From it comes `CompletedTheorem`.

`PipelineJobs_proofs`.  `IInv` is `TypeOK`, `JobInv` of every job (a job not made yet is
nothing; its tag is its own or a user's; what it is a rerun of has ended; some
request stopped it) and `RequestInv` of every request (what was read is an earlier
version of the job, and if it is the same version nothing that matters has
changed).  Every step satisfies `Grows`: versions, stops and final conditions of
jobs are never taken back, and `GrowthKeepsRequest` shows that what a request knows
survives it.  From these come `StopsOnlyOnce`, `StopsInTime`, `AcceptedStopsShow`,
`RerunsStartFresh` and `ImagesStayApart`.

`SecretUpdates_proofs`.  `IInv` is `TypeOK`, `SecretInv` of every secret and
`RequestInv` of every request.  `Sound` says of the contents of a secret alone that
values and times belong together: a value some request wrote carries that request's
time (`Dated`), values a request wrote are not older than those of another request that it
should have replaced (`Ordered`), and no time lies ahead (`Past`).  It holds of the secrets
and of the copies requests have read.  Every write gives a secret a version nobody has
read, so a copy whose version is still there is the secret as it is with the
request's change laid over it (`CopyInv`, `IsOverlay`): this is the point at which
optimistic concurrency does its work, and it is why the invariant speaks of copies.
`InvariantKept` shows once what every action needs: a secret is left alone or
written anew with sound contents, no request forgets its change or its time.  From it come
`ValuesAreDated` (`DatedByWriter`), `ValuesStayTogether`, `TimesNeverGoBack`, and
`Implementation`: every step of `SecretUpdates` is a step of `AtomicSecrets` or
leaves its variables alone.  `AcceptedAreDated` has two assumptions of its own, that
there are no key vault keys and that keys are declared as they are stored; the run
`secret_key_vault` shows that the first is needed.

`RegistrationUpdates_proofs`.  `IInv` is `TypeOK` and `RequestInv` of every request, which
does not mention the registration: what a request has built is what it has read but
for the fields it may change, with values it brought (`Prepared`, `IsChanged`); a warning in
what is about to be stored was acknowledged (`Checked`); and the role and the binding are
there only in the steps that need them, unless they are adrift (`Grants`).  Nothing that
others do to the registration disturbs this, and the API server compares what was read
with what is there when it is stored (`Stored`); therefore `OnlyRequestedIsStored` and
`NoUnseenWarning` hold.  `NoRoleStays` is `Grants` at the end of a request: what was created with success is
removed, and what is left is adrift for one of the two reasons above.  It says nothing of
a role whose creation ended with an error.
`PatchesAssumption` says that a modification has no shared secret to bring.

`ApplicationSetup_proofs`.  `PartsTheorem`: the composed specification implies that of
each part, because a step of one leaves the variables of the others alone.  The other
theorems have an invariant for each part.

- `KeyInv`: whatever a request that polls remembers as the old key is gone, or a newer one
  is there.  Keys are made with ever larger numbers, so nothing brings the old one
  back; hence `AnsweredKeyTheorem`.
- `AlertInv`: every RadixAlert, and every copy of one a handler holds, is `Sound`: a
  status of success for its own generation means that its specification was brought into
  effect.  Like in `SecretUpdates` the invariant must speak of copies, because what
  is shown is computed from one.  A copy of a handler that goes on to write is of a
  RadixAlert that was there, if the operation is an update, so creating from it is refused by its
  resourceVersion: `EnablingTheorem`.
- `VariableInv`: types, and that exactly the variables the component has have values.  It
  suffices for `NamedChangeTheorem`.  `ShownTheorem` needs `ShownInv` besides: as
  long as changes are made alone (`alone`), at most one is under way, what it has
  read is what is there, and between changes the metadata says exactly what differs
  from radixconfig.yaml; `ChangeIsShown` shows that a change that ends restores this.  Its
  condition `NoTwoSpellings` (no two values differ by case only) is one on the constants; the run
  `application_setup` satisfies it and `variable_spelling` shows that the code needs it.
- `RestartInv`: no copy is newer than the Deployment, and a copy about to be written is
  the Deployment with the stamp, unless that has moved on, in which case the write is
  refused: `RestartTheorem`.

`Reading_proofs`.  `EndsInOrderTheorem` has the invariant `ServerInv` of the goroutines of
each server.  `OverviewInv` has three parts: types; `Grouped`, that who works is in
the group that is waited for, and the goroutine of the application of an inner one is
waiting too; and `Collected`, that what has been handed over for an application is
whole unless the group has failed: everything that was listed, which includes all
there is, is in the channel of the group when that has ended (`Gathered`), and in the answer
(`Whole`).  Deleted environments make it no less whole: one that is deleted before its
goroutine reads it is an error.  It holds for any applications, environments and limits.
`AnswerTheorem` and `NothingLeftTheorem` follow.

`ScheduledBatches_proofs`.  `Inv` is `BatchesOK` (types, and that a batch of type "job"
holds one job), `Asked` (what the handler of a request knows before it calls the
library, for instance that what is to be deleted was, and therefore is, of the kind it asked
for) and `Stopping`, the argument about the operations that stop many: every batch in their
scope that was there when they came is at rest, or of a kind whose call failed, or of a kind still to do.
A batch that is renewed meanwhile leaves this alternative only by being noted in
`since`, so every step is shown to be one of four things to a batch (`BatchStep`):
nothing, its deletion, a change by which no resting job resumes, or a renewal that every
stop under way learns of.  From `Inv` come `TypeTheorem` and
`StoppedTheorem`.  `NamedTheorem` looks at each call in turn: what it changes is what its name,
taken apart at the last dash, is about.  `ListedTheorem` rests on `FullName`
and `NameOfParts`: taking a full name apart and putting it together are inverse to each
other, so two jobs of two batches never have the same one, although the name of a batch
may be that of a job.

Only model-checked: the liveness properties (`EveryRequestIsAnswered`,
`GoroutinesEnd`, `ReadersAreClosed`, `EveryOverviewEnds`, `ShutdownEnds`,
`EveryRegenerationEnds`), because temporal reasoning under fairness is beyond the provers
here.  Every invariant and every action property of the passing runs is a theorem.

## 6. Where the code and its words disagree

Three disagreements are runs that TLC ends with a counterexample.

1. *Key vault credentials* (`AcceptedIsDated` in `secret_key_vault`,
   `api/models/secret.go:431`).  The time of the last change is written under the key
   of the data and read under the suffix of the secret's name, so it is never shown.
2. *Deletion of a job* (`DeletedUnderItsName` in `job_deletion`,
   `api/environments/job_handler.go:230`).  The deletion looks up the batch a job's name
   begins with, not the job: `DELETE` of a job that does not exist deletes the job of
   that batch, where `GET` of the same name answers 404.
3. *Spelling of a variable's value* (`ConfigValueIsTrue` in `variable_spelling`,
   `api/environmentvariables/env_vars_handler.go:155`).  Values are compared
   without case, so a change from `Info` to `INFO` records nothing, and the next change
   records `INFO` as the value in radixconfig.yaml.

Properties of the same kind that are stated in the modules, that no
configuration kept here checks, and that TLC refutes when they are given to it
(as INVARIANT, and items 4 and 5 as PROPERTY, in the configuration named):

4. `EnvironmentResetIsComplete` (`environment_handler.go:318`): the documented "Reset all
   manually scaled component" resets only overrides of zero
   (`ComponentLoops.cfg`).
5. `EnvironmentStopIsComplete` (`component_handler.go:82`): the loop skips a component
   whose Deployment has no replicas at the moment, and an autoscaled one comes
   back (`ComponentDeployments.cfg`).
6. `OnlyActiveIsPatched` (`kubequery/radixdeployment.go:95`): with no active RD the
   comparator orders nothing and an RD that was never active is patched
   (`ComponentDeployments.cfg`).
7. `AcceptedIsConsistent` (`buildsecrets_handler.go:45`): the name of a build secret is
   compared without case, stored as the request spells it and listed as it is
   declared: accepted, and Pending for ever (`SecretKeyVault.cfg` with the keys
   `lower` and `upper`, no key vault keys, `Changes <- BuildChanges` and
   `Declared <- LowerCase`).
8. `ConsistentIsSet` (`buildsecrets_handler.go:85`): a declared build secret or image
   hub whose key is not in the object yet reads as set (`SecretPairs.cfg`).
9. `StopsAtTheEnd` (`models/controller.go:124`): the mutex is released before the ticker
   is cancelled, so a healthcheck can follow the last event or reach a response whose
   handler has returned (`Reading.cfg`).
10. `StoppingIsUnderway` (`progress_status.go:45`): a job that was told to stop and ended
    without changes is shown as Stopping from then on (`PipelineStops.cfg`).
11. `ShownStoppedIsRerun` (`manage_job_handler.go:57`): a job shown as Stopped whose
    condition is Succeeded is refused, against `job_errors.go:22` (`PipelineStops.cfg`).
12. `EmptyTypeIsEither` (`pipeline_parameters.go:115`): a reference of no type is looked
    up as a branch, against line 105 (`PipelineTriggers.cfg`).

Three more are known from reading and from the shape of the models, and are the
reason for a precondition in a property.  When the creation of the Role or RoleBinding of
the access validation takes effect but ends with an error, `validateUserIsMemberOfAdGroups`
returns before it defers the deletion (`applications_handler.go:652` and `:662`): a Role
stays in the API's namespace for ever, since nothing in the repository looks for its
label.  `RolesAreRemoved` therefore excepts what is adrift.  A second `Enable` that lists before the
first has written overwrites what was updated in between with the defaults
(`applyRadixAlert`), so `Alerting` promises only that nothing but enabling
enables.  And a change of environment variables whose second patch fails, or
that meets another, leaves a changed value without the one of radixconfig.yaml,
so `ConfigValueIsShown` speaks of changes made alone and to their end.

## 7. What is not modelled

Read-only handlers (deployments, events, metrics, build status, DNS aliases,
configurations, the queries of pipeline jobs) only convert what they read.
Authentication and authorization are decided by the Kubernetes API server and
appear as calls that may fail.  Routing, metrics, logging and configuration do not
touch the state modelled here.  Creating and deleting an environment is one call
each, with nothing to interleave.  Of the modules above, these details are left
out: the report of key vault secret versions; the clearing of an image hub's password;
duplicate names in one request for environment variables and the values a new RD
brings; the selection of the lines of a log; the contents of an alert configuration;
the parameters of a copied job.
