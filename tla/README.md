# A formal model of the propagation controller

TLA+ specifications of `kuberik/propagation-controller`, TLC configurations that
model-check them, and theorems about them with proofs for TLAPS. Source paths
below are relative to `src/`. `PROJECT.json` maps every definition to the lines
it models.

The program moves versions of an application through its deployments. CI pushes
the manifests of each version to an OCI registry; kpctl publishes there a
configuration that orders the deployments in environments and waves; one
`Propagation` object per deployment is reconciled over and over, reports the
version its deployment runs, reads what the others report, and when the wave
before it has run a version for long enough, publishes that version's manifest
under the deployment's deploy tag, where a GitOps agent picks it up. There is no
coordinator: the order of a rollout is the outcome of many reconciles that share
nothing but the registry.

## 1. Inventory

| Component | State it keeps | Operations | Talks to |
|---|---|---|---|
| Status reports (`api/v1alpha1/propagation_types.go`) | `Status.DeploymentStatusesReports`, one sequence of statuses per other deployment | `AppendStatus`, `LastStatus`, `VersionHealthyDuration`, `FindDeploymentStatusReport` | called by the reconciler |
| Deploy conditions and choice (`propagation_controller.go`, `pkg/repo/config/config.go`, `propagation_types.go`) | `Status.DeployConditions`, derived on every reconcile | `deployAfterFromConfig`, `deployWithFromConfig`, `DeploymentBakeTime`, `NextVersion`, the DeployWith loop | configuration artifact |
| Propagation reconciler (`internal/controller/propagation_controller.go`) | the `Propagation` object's status: conditions, own status, reports | `Reconcile`: up to five status updates, one publish of the status, concurrent fetches, one propagate | API server, propagation client, version object |
| Propagation client (`pkg/clients/propagation_backend_client_oci.go`) | one client per Propagation, with `fetchCache` and `publishCache` | `Propagation` (look up or create), `Fetch`, `Publish`, `PublishStatus`, `GetStatus`, `GetConfig`, `Propagate` | OCI registry, secrets |
| OCI backend (same file) | none | metadata to repository and tag, pull, digest, push, `newPropagationBackendClient`; `NewArtifact`, `ParseArtifact` | registry library |
| ReleasePromotion reconciler (`internal/controller/promotion`) | an `Available` condition | list tags, copy the first one to `latest` | two registries |
| kpctl publish (`cmd/kpctl`) | none | publish every configuration file of a repository, in turn | registry |
| Manager (`cmd/main.go`) | none of its own | flags, registration of the reconcilers | controller-runtime |

What is hard, component by component, and what would make it correct:

* **Status reports.** A pending status is updated in place, in an array that the
  saved report and its copy share, an equal one is merged, anything else is
  appended; the healthy duration is then computed from the sequence. Long
  alternations of statuses, and polls of which one part fails, are what a table
  test does not reach. Correct means: nothing that was recorded is lost in a way
  that matters (a failure, the latest status), no version is credited with time
  it did not have, and a poll that learns nothing changes nothing (else the
  controller wakes itself up for ever).
* **Deploy conditions and choice.** Loops that carry the previous wave from one
  environment into the next. Correct means: versions arrive in the order of the
  configuration, and only after every deployment of the wave before has baked
  them.
* **Reconciler.** It acts on statuses that were true when they were fetched,
  between calls that fail and beside reconciles of other deployments; a crash
  loses its local state. Correct means: what it believes about others is true
  when it acts, a decision stays justified however late it is carried out, and
  every version arrives in the end.
* **Client.** Two caches in front of a registry that others write, shared by the
  goroutines of one reconcile, kept across reconciles and across an edit of
  `baseUrl`. Correct means: it cannot be told apart from a plain store.
* **kpctl.** A loop over files that ends at the first error and is run again, by
  several jobs against the same registries. Correct means: success is success for
  every file, and no backend gets a configuration that names another one.
* **ReleasePromotion.** Two registries that change between the calls, a status
  update whose error nobody looks at, an object that may be gone. Correct means:
  the first release arrives, a lasting failure is told and repeated, and the
  reconciler neither keeps itself busy nor comes back for a deleted object.

`PROJECT.json` lists the hazards of the code at their lines, with the properties
that would catch them, or the reason why none does.

## 2. Modules

| Module | What it is | Models |
|---|---|---|
| `StatusHistory` | operators | a report and the three functions on it |
| `StatusReport` | state machine | one report, polled with success, in part or in vain, while the status artifact changes and time passes |
| `StatusHistoryProofs` | lemmas | what `AppendStatus` and `VersionHealthyDuration` guarantee for every sequence |
| `StatusReportProofs` | theorems | the properties of `StatusReport` for every set of versions, every bound |
| `DeployConditions` | operators | configuration to conditions, `NextVersion`, the DeployWith check |
| `DeployConditionsProofs` | lemmas | which wave a deployment follows, what a report on healthy statuses credits, what `NextVersion` returns |
| `Reconciler` | state machine | one Propagation's `Reconcile` against API server, cache, work queue, failures |
| `ReconcilerProofs` | theorems | the safety of `Reconciler` for every bound |
| `Rollout` | state machine | all deployments of an application, their reconciles interleaved at every call |
| `RolloutHistory` | `Rollout` with a history variable | when each version really ran where; safety of the decisions |
| `RolloutProofs` | theorems | the safety of `Rollout` and `RolloutHistory` for every family of configurations, every number of versions and edits, every horizon |
| `RolloutLiveness` | `Rollout` with fairness | eventual arrival of every version |
| `Artifacts` | operators | what an artifact is called: the caches' keys, the registry's tags, the supported backends |
| `Backend` | abstract specification | what a reconciler may expect of the client: a store |
| `CachedBackend` | state machine | the client, its caches, its goroutines; implements `Backend` |
| `CachedBackendProofs` | theorems | the client is a store, for every set of artifacts and any number of goroutines |
| `Kpctl` | state machine, extends `CachedBackend` | runs of kpctl beside a client that fetches what they publish |
| `KpctlProofs` | theorems | the safety of `Kpctl` for any number of jobs, files and backends |
| `ReleasePromotion` | state machine | one ReleasePromotion between two registries, API server, cache and queue |
| `ReleasePromotionProofs` | theorems | the safety of `ReleasePromotion` for every bound |
| `MCConfigs`, `MC...` | instances | configurations, constants and symmetry for TLC |

Operators named `X_Faulty...` are mistakes that `X` might contain. Nothing uses
them; putting one in the place of `X` makes TLC find a violated property, which
shows that the property depends on that piece of the code.

### From code to model

**StatusHistory.** `AppendStatus` in the code is an `if` and a `switch` on the
last entry followed by a compaction of the last two; the module has the two
halves `Recorded` and `Compacted`, and in the former the case that writes over the
last entry (`Overwrites`, `Overwritten`), which matters on its own: see `PollFails`.
`HealthState` has the constants of the Go type, `Admitted` the states of the marker
from which the CRD is generated; the two differ (section 3).
`VersionHealthyDuration` looks for the first
entry about the version and returns from within that iteration; `FirstIndex` is
that entry, `Bad` those from there on that are not healthy, and `Until` what
the loop leaves in the variable of that name, the start of the *last* bad entry
because each one overwrites it. Time is an integer and "now" a parameter.

**StatusReport.** `Publish` is the other deployment's `PublishStatus`; nothing
between it and the registry looks at the state. What a poll, that is one goroutine
of `Reconcile` and the status update after it, does to the report depends on the
other goroutines and on the API server:

| Action | Code |
|---|---|
| `Poll` | every `GetStatus` succeeds, and the update (177) is accepted: the report is appended to and compacted |
| `PollFails` | this `GetStatus` succeeds, another one fails: the new reports are thrown away. But `reports[i] = *report` (145) copies the slice and not its array, so an entry that `AppendStatus` wrote over is changed in the object too and is saved with the condition (166), without the compaction, which only shortened the copy. An appended entry is in neither. |
| `PollRefused` | the API server refuses either update, since the state is none that the CRD admits: nothing is saved |
| `Tick` alone | the poll was delayed, this `GetStatus` failed, or the update failed for another reason |

`Forget` is the effect of a configuration that stops requiring the deployment.

**DeployConditions.** A configuration is a sequence of environments, each the
sequence of its waves. `DeployAfter` is the wave visited just before the one that
names the deployment, across environments, as the loop variable
`lastWave` is never reset between them. `Baked` keeps the code's way round:
a version is rejected when `BakeTime > VersionHealthyDuration`, so a bake time of
zero rejects nothing.

**Reconciler.** One action per call of `Reconcile` that can fail, with its failing
outcomes. The object is kept at the API server, as the cache has it and as the
reconcile's local copy; a resource version is modelled by what it decides, `stale`
(somebody else wrote the object since Get) and `lagging` (an event is on its way).
`Updated` and `NotUpdated` are the outcomes of `Status().Update`: carried out,
refused for a conflict, failed without effect, carried out but unanswered. What
the code then does with the error differs from place to place and is the point
of the module: returned (86, 106, 177), returned while another error is
(`SaveNotReady`, `SaveNotFetched`), or turned into an empty result
(`SaveStatus`, 129). `queued`, `delayed` and `lagging` are the ways to the next
reconcile. The version object is not watched, as `SetupWithManager` has it. A condition has its status or reason and its text, as
both `SetReadyConditionFalse` (262) and the failed fetch (162) copy the error: a
failure has a text of its own, the members of `Varying` have two, and when several
statuses are missing the text is that of whichever goroutine failed first. The
version that justifies a propagation is `Rollout`'s subject and a free choice
here; of the reports of the required deployments the last saved versions are kept. Getting the object
is taken to succeed: the only effect of a failure is a retry.

**Rollout.** Per deployment: the registry (`manifest`, `deploy`, `status`), the
cluster (`running`), the saved object (`recorded`, `reports`) and the locals of a
reconcile (`pc`, `basis`, `read`, `fetched`, `choice`). A reconcile is cut where another
one can interleave:

| Action | Code |
|---|---|
| `Begin` | read the object, derive the conditions, read the running version, compare it with the recorded one |
| `PublishStatus`, `SaveStatus` | the two calls when they differ |
| `FetchStatus(d, u)` | one goroutine: `GetStatus(u)`, stamped and appended, in any order among them |
| `StatusMissing` | `GetStatus` fails since u never published: nothing is saved |
| `SaveReports` | the status update with all reports, and the decision taken on them |
| `Propagate`, `ManifestMissing` | fetch the chosen manifest and publish it under the deploy tag, or fail |
| `Abort` | any other call fails, or the controller restarts |

The environment is `PushManifest` (CI), `Apply` (the agent applies what is under
the deploy tag and updates the version object), `PublishConfig` (kpctl) and `Tick`.
A reconcile reads the configuration once, into `basis`, and goes by it to its end;
others may by then go by another one. A deployment that the configuration read
does not name ends its reconcile in `Begin`; its object keeps its reports, and a
configuration that names it again takes them up. `latest` is looked up
when the manifest is fetched, not when it is chosen: `Chosen`. The reconciler
publishes no state but Healthy (`propagation_controller.go:111` sets it
unconditionally), and so does `Rollout`; `StatusReport` covers the other states.
With no state but Healthy nothing is ever written over in place, which is why a
fetch that fails in part leaves the saved reports alone in `StatusMissing`, and
nothing is refused for its state.
The client is taken as a plain store, which is what `CachedBackend` shows of it.

Time is kept finite by keeping it relative: now is 0, a stamp is a negated age
and stops growing at `Horizon`. With healthy statuses only, every duration the
code computes is the age of one stamp and is only ever compared with a bake time,
so ages beyond the longest bake time need not be told apart.

**Artifacts, CachedBackend.** Caches are keyed by metadata, registries by tag:
`Tag` is `ociTagFromArtifactMetadata`, and that two artifacts never share a tag is
part of what `IsAStore` shows. A fetch has three steps (look up, ask for the
digest, pull), between which other goroutines and other users of the registry
act. Publishes and `SetBackend` happen while no fetch runs, since `Reconcile` waits
for its goroutines and one Propagation is reconciled by one worker at a time.
`SetBackend` is `PropagationClientset.Propagation` for an edited `baseUrl`; for a
scheme that is not supported it changes nothing. `Spec` is about the time in
which it stays, `MovingSpec` and `Kpctl` about edits. `Restart` loses both caches at
any moment; the unlocked map writes of two goroutines, which may end the process,
are covered by it. Names of deployments are single path elements.

**Kpctl.** `PublishConfigs` run by several jobs: `FindConfigs` lists the files,
`PublishConfig` is one turn of the loop, `PublishConfigFails` the first error, after
which the remaining files are not looked at, and `RunAgain` starts from the first
file. Each file's client is new, so its caches never hold anything and `Publish`
always pushes; the push may be carried out without an acknowledgement. The module
extends `CachedBackend`, whose client fetches from the same registries, its
configuration among other things, and may be moved from one to the other. The
history variable `alone` says whether another job's push came between. At this
commit `publishCmd.Run` prints a line and `PublishConfigs` is called by nothing; the
module models the function.

**ReleasePromotion.** One action per call of `Reconcile` and outcome. `crane.Copy`
has two halves, `Pull` and `Push`, so that a tag may be moved or deleted after the
listing and again while the copy runs. A failure is lasting (`fault`, with the texts
it may show, any of them at any attempt) or happens once, with any text. `SetNotAvailable` is
`meta.SetStatusCondition`: an unchanged condition is not saved. `Save` has every
outcome of `Status().Update`, and the same end after each, since the error is
dropped. An empty list of tags makes `releases[0]` panic; controller-runtime
recovers, and the key comes back with backoff. Object, cache and queue are those
of `Reconciler`, and here the object may also be deleted.

**Backend** and the refinement. `store` is what the registry in use holds,
`waiting` the ref a goroutine is fetching. Only the answer of a fetch, the
acknowledgement of a publish and the registry are visible; `IsAStore` states that
every step of the client is a step of the store or a stutter. A fetch answered
from a cache must therefore return what the registry holds at that moment, and a
skipped publish must be one that would have changed nothing.

## 3. What TLC checks

`ReleasePromotion` is the only run without a deadlock check: once the object is
deleted nothing need happen again.

| Run | Instance | Result |
|---|---|---|
| `StatusReport` | 3 versions, 4 published states, of which 3 can be saved, clock to 3, reports to 4 entries | all properties hold |
| `StatusReportContinuous` | 3 versions, healthy and degraded | `ContinuousHealth` is violated |
| `Rollout` | eight configurations, some replacing one another, 2 or 3 versions, bake times 0 and 1 | all properties hold |
| `RolloutUnbaked` | a deployment that follows two, bake time 0 | `BakedEverywhere` is violated |
| `RolloutLiveness` | six configurations, two pairs of which replace each other, 3 versions | `Converges` holds |
| `RolloutTwin` | two deployments in a first wave, a second wave | `Converges` is violated |
| `Reconciler` | 2 required deployments, 2 versions, a failure whose text varies, 3 changes by others, 1 failure or restart | all properties hold |
| `ReconcilerRollback` | 1 required deployment, 2 versions, a deployment that goes back | `StatusAccurate` is violated |
| `CachedBackend` | 4 refs of three kinds, 2 values, 2 goroutines | all properties hold |
| `CachedBackendMoved` | 2 registries, published refs | `PublishedIsServed` is violated |
| `Kpctl` | 2 registries and an unsupported backend, 2 jobs with 3 and 2 files, one client | all properties hold |
| `ReleasePromotion` | 2 tags, 2 artifacts, failures with one or two texts, 2 changes, 1 failure or restart | all properties hold |

**The properties.** `LatestRecorded`, `WellFormed`, `FailureRemembered`,
`BakeNeverEarly`, `ExactWhenHealthy` and `QuietPoll` relate the report to history
variables that keep which answers were recorded, by polls that succeeded and by
polls that failed in part. They do not say more than the code guarantees: a
failure that was fetched and never saved is forgotten, and after a partly failed
poll two adjacent entries may say the same, so `WellFormed` asks only that no
pending entry survives its outcome. `ReportsTruthful` follows a claim
through version object, status artifact, fetch, report and aborted reconciles to
the fact it is about. `BakedEverywhere` and `FirstWaveWaits` are action
properties about the moment of a publish: what must have been true in the
cluster, not in the reports, under the configuration the reconcile has read.
`NeverAhead` is the rollout's order as an invariant, as long as the configuration
stays: after an edit it does not hold, since a longer bake time may send a
deployment back behind those that follow it. `NeverBack` says that, as long as the
configuration stays, no crash or failed update makes a controller decide on less
than it decided on before. `Converges` is arrival, after the last edit. In `Reconciler`,
`StaleReadsStop`, `ReadyOnRecord` and `SavedBeforeUse` say what a reconcile may rely
on when it publishes or propagates: that depends on the order of its updates and
on the first one being unconditional, not on any single check. `NeverForgotten`
accounts for every way a reconcile can end. `ReadyTells`, `Settles` and
`StatusAccurate` say what holds when the changes are over; `Settles` only if what
still fails then has one text (`Steady`), see below. `PublishedIsServed` and
`IsAStore` are about the caches. In `Kpctl`, `SuccessIsServed` relates the end of a
job to the registries across failed runs and unacknowledged pushes, and
`OwnConfiguration` what a client fetches to the files: a backend, or a client moved
to it, never works with what was meant for another. In `ReleasePromotion`,
`RestsOnSuccess` accounts for every way of coming to rest, through lost updates,
edits and restarts: the last attempt succeeded, for the protocol of the object as
it is by now. `Promoted` and `FailureTold` are about what the target and the
condition say when the changes are over, `DeletedRests` and `Settles` about coming
to rest at all, the latter again only if a lasting failure has one text. `JobsOK` is the type invariant of `Kpctl`.

**The bounds.** Three versions let a report alternate between two and still be
interrupted by a third, which is what every case of `AppendStatus` and of the
duration needs; a clock of three separates first seen, interrupted, and now. A
state that is not saved, `Unhealthy`, is published beside those that are. In
`Rollout` three deployments are the least with a wave in between and with two
followed deployments; two versions are enough for one to overtake the other, and
`Succession` has three so that one can be skipped. Of the configurations that
replace one another, `Pair` and `Solo` drop a deployment and take it up again, which
takes two edits; `Forward`, `Backward` and `Hasty` turn the order round and change the
waves and bake times, which takes one. Two deployments are enough for either.
`Horizon` is the longest bake time. In `CachedBackend` there is one ref of each
kind (versioned manifest, status of another, own status, own deploy tag): entries
of a map under different keys do not interact. Two goroutines are the least that overlap.
In `Reconciler` one failure is any call that fails or goes unanswered, any update
that is lost, or a restart anywhere; conflicts are not counted, they come from the
edits. (The instance with two failures has 2.0 million states and gives the same
results; the safety properties are proved for any number.) Three changes are an
edit in the middle of the reconcile that reacts to another change;
versions are compared for equality only. Two required deployments are the least
of which either may be the first to fail. In `Kpctl` one job has two files for a
registry and publishes the same configuration to two, the other ends with a
backend that is not supported: the cases in which an order, a shared cache or an
early end would show. In `ReleasePromotion` two tags are enough to move one while
the other is listed first, two texts to tell an old failure from a new one, and a
failure with one text from one whose text varies.

**Disagreements.** Five runs are expected to fail: the code does one thing and
a comment or test says another.

* `StatusReportContinuous`: a version is credited across an outage when a second
  failure follows the first (`propagation_types.go:151`). The run publishes the
  failures as `Degraded`, which can be saved. With `PublishedState = {"Healthy",
  "Unhealthy"}` one failure is enough, for the reason that follows.
* `RolloutUnbaked`: without a bake time a version is released that one of the
  followed deployments never ran (`propagation_types.go:230`).
* `RolloutTwin`: two deployments in the first wave of an environment end at
  different versions; the second wave finds no version that both have baked, and
  the first waits for the second (`propagation_controller.go:189`). Nothing moves
  again.
* `ReconcilerRollback`: a status that was published and not recorded stays in the
  registry when the deployment goes back to the recorded version
  (`propagation_controller.go:127`). It takes one failure; with
  `MaxFailures = 0` the property holds. With `Disturbance = {"move"}`, an edit of
  `baseUrl`, it does not hold either: the recorded status was published elsewhere.
* `CachedBackendMoved`: a client keeps `publishCache` when `baseUrl` is edited,
  and the new registry never gets what the old one already holds
  (`propagation_backend_client_oci.go:261`).

Three more disagreements have no run of their own; the models contain them, and
the properties are stated so that they hold in spite of them.

* The constant of the code is `Unhealthy` (`health_types.go:35`); the markers
  (`propagation_types.go:192`, `health_types.go:26`) and the CRD generated from them
  (`config/crd/bases/kuberik.io_propagations.yaml:306-310` and `327-331`) admit
  `Healthy`, `Pending` and `Degraded`. A report with the constant would be refused
  by the API server: the whole update with it, so that as long as one required
  deployment is reported unhealthy nothing is recorded of any of them and nothing
  is propagated. That stops a bad version, but once the deployment recovers nothing
  remembers the failure, and the version is credited across the outage.
  `ExactWhenHealthy` says so. Nothing publishes the constant at this commit. One
  that reported `Degraded` would be saved, and `VersionHealthyDuration`, which
  compares with `Healthy` only, would count it as a failure.
* An object whose condition tells a failure with varying text never comes to rest:
  every other text changes the object, and every change wakes the reconciler up.
  In `Reconciler` two required deployments that have not published a status yet are
  enough, as either may be the first to fail. Without `Steady` TLC shows the loop.
* The same in `ReleasePromotion` (`releasepromotion_controller.go:73`, `93`): there
  the error comes from the registry and may carry a request's id or a time.

The constant `FailedPush` of `CachedBackend` also admits a push that was carried
out and not acknowledged. `publishCache` then names the artifact before it, and
publishing that one again is skipped: `PublishedIsServed` fails with
`FailedPush = {"unacknowledged"}`. `CachedBackend.cfg` takes refused pushes only;
`Kpctl.cfg`, whose clients are new for every file, takes both.

**Fairness.** Weak fairness of a deployment's `Step`: controller-runtime repeats a
reconcile after the poll interval on success and with backoff after an error, and
calls time out. Weak fairness of `Apply`, `PushManifest` and `Tick`: the agent, CI
and the clock go on. Nothing obliges a call to fail or to succeed; failures may
occur any number of times until `Stabilise`, after which none do, the usual
assumption for progress. The reconcile that ends with an empty result after a
rejected update (`propagation_controller.go:129`) is requeued by no one;
`Reconciler` says what follows it (`NeverForgotten`): an event if the update met a
conflict, the cache's resynchronisation (ten hours by default, `Resync`)
otherwise. `Rollout` takes it as repeated. In `Reconciler` the worker, the watch,
timers and the resynchronisation are weakly fair; failures and changes are
bounded in number and never obliged to happen. The configurations outside `Overlapping` explore one activity at a time to
keep the graph small: a liveness result for those schedules, not for all. `Pair`
and `Solo` have every interleaving and every failure. The fairness of
`ReleasePromotion` is that of `Reconciler`; nothing but the resynchronisation repeats
a successful reconcile there, so `Promoted` may take as long as that.

## 4. What is proved

Every theorem is about the same modules that TLC checks, for every value of their
constants: any number of versions, deployments, configurations, artifacts,
goroutines, jobs, files, changes and failures, any horizon and any bound.
Specifications are those of the module named; `HistorySpec` is that of
`RolloutHistory`.

| Module | Theorem | Says |
|---|---|---|
| `StatusReportProofs` | `TypeCorrect` | `Spec => []TypeOK` |
| | `ReportSound` | `Spec => [](WellFormed /\ LatestRecorded)` |
| | `LatestStatusKept` | `Spec => []LatestRecorded` |
| | `FailureNeverForgotten` | `Spec => []FailureRemembered` |
| | `NeverEarly` | `Spec => []BakeNeverEarly` |
| | `ExactCredit` | `Spec => []ExactWhenHealthy` |
| | `PollsAreQuiet` | `Spec => QuietPoll` |
| `ReconcilerProofs` | `TypeCorrect` | `Spec => []TypeOK` |
| | `StaleReadsNeverAct` | `Spec => []StaleReadsStop` |
| | `ReadyBeforeActing` | `Spec => []ReadyOnRecord` |
| | `NothingForgotten` | `Spec => []NeverForgotten` |
| | `OnlySavedReportsCount` | `Spec => SavedBeforeUse` |
| `RolloutProofs` | `RolloutTypes` | `Spec => []TypeOK` |
| | `RolloutReportsTruthful` | `HistorySpec => []ReportsTruthful` |
| | `RolloutBaked` | `BakedWaves` implies `HistorySpec => BakedEverywhere` |
| | `RolloutFirstWaveWaits` | `HistorySpec => FirstWaveWaits` |
| | `RolloutNeverBack` | `HistorySpec => NeverBack` |
| | `RolloutNeverAhead` | `BakedWaves` and `OwnDeployments` imply `Spec => []NeverAhead` |
| `CachedBackendProofs` | `CachedBackendTypes` | `MovingSpec => [](TypeOK /\ FetchesOK)` |
| | `ManifestsStayCurrent` | `Spec => []ManifestsCurrent` |
| | `CachedBackendServes` | refused pushes only: `Spec => []PublishedIsServed` |
| | `CachedBackendIsAStore` | refused pushes only: `Spec => IsAStore` |
| `KpctlProofs` | `KpctlTypes` | `KSpec => []JobsOK` |
| | `KpctlSuccessIsServed` | `KSpec => []SuccessIsServed` |
| | `KpctlOwnConfiguration` | `KSpec => OwnConfiguration` |
| | `KpctlIsAStore` | `Owned = {}` and `Immutable = {}` imply `KSpec => IsAStore` |
| `ReleasePromotionProofs` | `ReleasePromotionTypes` | `Spec => []TypeOK` |
| | `ReleasePromotionRests` | `Spec => []RestsOnSuccess` |

**Assumptions.** The named ones of the modules: published states are constants of
the code or states that the CRD admits; bounds are natural numbers; marks such as `NoVersion`, `None` and `Absent` are not
values; configurations that replace one another are about the same versions;
bake times are at most `Horizon` (`ContentAssumption`); in `CachedBackend` only a
manifest has a version, as in the six kinds of metadata that the client builds
(`propagation_backend_client_oci.go:349-399`; `RefAssumption`). TLC evaluates all
of them on the instances.

Some theorems have a hypothesis besides. None is for convenience: without it the
property is false, and TLC finds the behaviour.

* `BakedWaves`: a wave without a bake time has one deployment. Without it
  `NextVersion` takes a version that one deployment of the wave never ran for one
  that has been healthy there for no time at all: `RolloutUnbaked`.
* `OwnDeployments`: each wave names a deployment that no earlier one names. After
  a wave without deployments the next one takes `latest` and overtakes (waves a; a;
  none; b), and a deployment named twice counts where it is named first (waves
  a; c; a; e): in both `NeverAhead` is violated.
* `FailedPush \subseteq {"refused"}`: a push that fails has no effect. Otherwise
  `publishCache` may name the artifact before the one that the registry holds
  (section 3). `Kpctl` needs no such hypothesis, since every file has a new client.
* `Spec` instead of `MovingSpec`: the backend stays, see `CachedBackendMoved`.
* `Owned = {}` and `Immutable = {}` in `KpctlIsAStore`, as in the instance of the
  run: a client that may be moved publishes nothing and fetches no manifest of a
  version. Of the former `CachedBackendMoved` shows why; the latter is answered from
  the cache without asking the new backend.

**StatusReport.** The inductive invariant `IInv` has six parts. `TypeOK`, `WellFormed` and
`LatestRecorded` are properties themselves. `FailureRemembered` is not inductive:
that a duration is zero now says nothing about the entries that make it zero.
`FailureKept` says it of the entries: a version with a recorded failure has a failing
entry in the report. `HealthyStamped` ties the history variable to the report: every
healthy entry of a version is stamped no earlier than a poll first recorded the
version as healthy. `HealthKept` is the other direction, for `ExactWhenHealthy`: while
every entry is healthy, the first entry about a version is there and carries the
stamp of that poll, whatever was appended after it. The actions that take work are
`Poll` and `PollFails`. For the former everything rests on
`AppendStatusRecords`, which says of any sequence without a
surviving pending entry and any new status which entries the result has: each old
one survives except a pending last one of the same version, and the new one is
last. For the latter the last entry alone changes, into one that says the same as
the new one. `PollsAreQuiet` rests on
`AppendStatusRepeats`: appending what the last entry says returns the same
sequence. `UntilIsReached` and `FirstIndexIsFirst` make the `CHOOSE` of the
duration usable, from the least-number principle.

**Reconciler.** The properties are inductive once two facts are added.
`StaleIsNoticed`: a copy that was stale from the start is stale, so the first
update ends it, and whoever made a copy stale left an event in the cache or a key
in the queue, so a swallowed conflict is followed by a reconcile. `CopyOnRecord`:
what the copy and the object have in common in each phase, right after the first
update everything, later the Ready condition, and the reports when a version is
about to be propagated. The type invariant is proved in two halves since the
provers that are good at records are bad at Boolean variables.

**Rollout.** Four invariants, one on top of the other; TLC checked each of them on
the instance of the run before it was proved.

1. `TInv` is `TypeOK` cut into the world, the locals and the reports, so that each
   part of a step is looked at once. Beside it stand two facts on how a step
   changes the state, whatever it is: `HowReportsChange` (a report is left alone,
   dropped, replaced by the fetched one, or extended by one status, or everything
   grows older), and `HowValuesFlow` (a version passes from the manifest to the
   deploy tag, to the version object, to the reconcile that reads it, to the status
   artifact; and when a choice is made or kept). All later steps argue from
   these two and not from the single actions.
2. `TruthInv`: every version that is running, read or published has run
   (`RunOK`), and every entry of every report, saved or being assembled, is stamped
   no earlier than the version began to run (`TrueOf`). It implies `ReportsTruthful`, which
   alone is not inductive: a status artifact might say anything.
3. `DecidedOK`: between the decision and the publish, what it was taken on still
   holds of the fetched reports. Under `Tick` it does because a duration only grows,
   up to the longest bake time. With `TruthInv` this gives `BakedEverywhere`
   and `FirstWaveWaits`; the lemma between them is `AllowedIsMentioned`, which is
   where `BakedWaves` is needed.
4. `OrderInv`, as long as the configuration stays. `Rising`: a report names ever
   newer versions, up to the one in the status artifact. `Grown`: what a reconcile
   has fetched says all that the saved report says. `Earned`: what is under the
   deploy tag is still allowed by the saved reports. So a version allowed once stays
   allowed, the next choice is at least as new, and `NeverBack` follows from the last
   conjunct of `OrderOK`. For `NeverAhead`, `NotAheadOfFollowed` has it for the wave
   that a deployment follows; the theorem takes the first position at which
   some deployment is ahead of an earlier one, and finds an earlier such position
   in the wave that it follows. The choice of a first position, and the least and
   greatest elements behind `NextVersion` and `LastIndex`, come from the finiteness
   of the positions (`DeployConditionsProofs`), without induction over data.

The proof was the reason for one change of a property. `NeverAhead` used to be
stated for every two deployments whose order the configurations of a family agree
on. With an edit to a longer bake time that is false, and the instances with edits
had no two such deployments; it now says what holds.

**CachedBackend.** `ManifestsCurrent`: a cached versioned manifest is what the
registry holds, since nobody replaces one. `PublishesCurrent`: an entry of
`publishCache` is what the registry holds, since nobody else writes what the client
publishes. `FetchesOK` ties what a goroutine holds to where it stands. `TagInjective`
(two artifacts never share a path and a tag) is what keeps a push from replacing
another artifact. The refinement is proved step by step: `FetchIsAsked`,
`FetchIsAnswered`, `PublishIsPut` and `OthersReplace` map the actions to those of
`Backend`, all others to a stutter.

**Kpctl.** `ProgressIsServed` says of each job that no other run crossed that what it
has published so far is what the registries hold, file by file; at the end of the
job that is `SuccessIsServed`. `ConfigurationsAtHome`: a backend that holds a
configuration holds one that some file had for it; with `FetchesOK` and the path
of the tag this gives `OwnConfiguration`. The client beside the jobs changes
neither (`ClientSpares`). For `KpctlIsAStore` the lemmas about fetches are those of
`CachedBackendProofs`, and whatever happens in the registries, a move included, is
one replacement (`AnyReplace`).

**ReleasePromotion.** Two facts make `RestsOnSuccess` inductive. `FoundOnTheWay`: a
reconcile that is past the listing has a tag, and past the pull an artifact.
`KeepsUp`: an object whose protocol is not the one of the cache, or of the copy a
reconcile works on, has an event on its way or a key in the queue; so an attempt
that ends well for an outdated protocol is not the last one.

**Only model-checked.** Liveness, which this prover does not do: `Converges`,
`ReadyTells`, `Settles`, `StatusAccurate`, `Promoted`, `FailureTold`, `DeletedRests`.
The five violations, which are behaviours.

## 5. Not modelled

The encoding of artifacts as OCI images, the field path lookup of `getVersion` in
any object, reading and parsing of kpctl's files, logging, the manager's flags,
generated code: conversions or wiring without state; their failures are outcomes
of the actions that call them. Secrets and registry authentication are covered as
failing calls. Environment names and release cadences are read by no code.
`releasepromotion_client.go` is commented out but for two helpers that nothing calls.
Two managers at once are not modelled: the manifests under `config/` switch leader
election on.

What reading showed and no run is about:

* With reconciles that overlap and fail, turning the order of two deployments
  round may stop a rollout for good: the deployment that published version 2 and
  did not record it is sent back to version 1, its status artifact stays at 2, and
  the other waits for it to have version 1. It is the defect of
  `ReconcilerRollback` with a worse end. `RolloutLiveness` turns the order round with
  one thing happening at a time only.
* A longer bake time, or a deployment added again, sends those that follow back
  to an older version: `NextVersion` returns the newest *baked* version, also when a
  newer one runs. That is why `NeverBack` and `NeverAhead` stop at the first edit. A configuration
  that flaps makes the reports grow without bound.
* `cmd/main.go:50` adds only `api/v1alpha1` to the scheme; the promotion types are
  unknown to it, so `ReleasePromotionReconciler.SetupWithManager` (line 102) returns
  an error and the manager exits.
* A deleted Propagation is retried for ever: `propagation_controller.go:69` returns
  the error of Get also when the object is gone. `PropagationClientset.clients` keeps
  the clients of deleted Propagations, and one created again inherits the caches.
* `ReleasePromotion` never sets `Available` to anything but False: after a success
  the condition tells the last failure, though the type says it "represents the
  current state" (`releasepromotion_types.go:74`). The protocol `s3`
  lists tags, does nothing and succeeds.
* Stamps are saved with the resolution of a second, so a version may be credited
  with up to a second too much; the clock of the models ticks in that resolution.
* A wave without deployments, or a deployment named twice, is rejected by nothing.
  After the former the next wave follows nobody and takes `latest`.

## 6. Plan

Done: status reports and their decision, the reconciler, the rollout under
configurations that change, the client, kpctl, ReleasePromotion; theorems about the
safety of each, and the refinement of `Backend`. Left, in order of what matters
most:

1. What survives an edit. Between edits, and once the reports of the new
   configuration have been filled, `NeverBack` and `NeverAhead` should hold again; the
   invariant would be `OrderInv` with the edit as a new beginning.
2. `CachedBackend` with unacknowledged pushes: the client is then a store whose
   publishes of an artifact it had published before may be lost; that weaker
   specification could be stated and implemented.
3. In `Reconciler`: the generation in conditions, a deleted object, a second worker
   after a change of leader.

Module composition: `StatusReport` and `DeployConditions` extend `StatusHistory`; `Reconciler` stands
alone and justifies the fairness of `Rollout`;
`Rollout` extends `DeployConditions`; `RolloutHistory` and `RolloutLiveness`
extend `Rollout`; `CachedBackend` extends `Artifacts` and instantiates `Backend`;
`Kpctl` extends `CachedBackend`; `ReleasePromotion` stands alone. No module that a
theorem is or will be about uses a recursive operator.
