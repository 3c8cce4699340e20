----------------------------- MODULE Reconciler ------------------------------
(***************************************************************************)
(* Reconcile of internal/controller/propagation_controller.go for one      *)
(* Propagation, against everything between it and its object: the cache    *)
(* that Get reads, the conflicts that Status().Update meets, the work      *)
(* queue, calls that fail before or after their effect, restarts of the    *)
(* controller and edits of the spec.  The object's own status, conditions  *)
(* with their texts and the last saved version of every required           *)
(* deployment are kept; which of these versions the reports justify is     *)
(* Rollout's subject, here it is a choice.                                 *)
(*                                                                         *)
(* A resource version is modelled by what it decides: a copy of the object *)
(* is stale when the object was written since the copy was taken.          *)
(***************************************************************************)
EXTENDS Naturals

CONSTANTS
  Required,        \* the deployments whose status is required
  Varying,         \* failures whose text may be another one at every attempt
  MaxVersion,      \* bound on the versions the deployment runs
  MaxChanges,      \* bound on what others change
  MaxFailures,     \* bound on failed calls and restarts
  Disturbance      \* changes that make the own status false: "rollback", "move"

ASSUME BoundAssumption == MaxVersion \in Nat \ {0} /\ MaxChanges \in Nat /\ MaxFailures \in Nat
ASSUME DisturbanceAssumption == Disturbance \subseteq {"rollback", "move"}

None == 0                    \* no version
Version == 1..MaxVersion
MaybeVersion == Version \cup {None}

FailureReason == {"BackendInitFailed", "ConfigInitFailed", "VersionMissing"}

\* What can fail: a part of the reconcile, or the fetch of one status.
Failure == FailureReason \cup Required

\* The texts that a failure may show, apart from the texts of other failures.
Texts(f) == {f} \X (IF f \in Varying THEN {1, 2} ELSE {1})

\* A condition: its status, or the reason why it is False, and its message, of
\* which only err.Error() can differ.
NoText == <<>>
Condition ==
  [says : {"Unknown", "True", "StatusesFetchFailed"} \cup FailureReason,
   text : {NoText} \cup UNION {Texts(f) : f \in Failure}]

Unknown == [says |-> "Unknown", text |-> NoText]
Holds == [says |-> "True", text |-> NoText]

\* The object: its conditions, deploy conditions (present or not), own status
\* and the last saved versions of the required deployments.
Object == [ready : Condition,
           fetched : Condition,
           conditions : BOOLEAN,
           version : MaybeVersion,
           seen : [Required -> MaybeVersion]]

VARIABLES
  (* The environment *)
  config,      \* whether a configuration that names the deployment is published
  present,     \* whether the version object can be read
  deployed,    \* the version in it
  others,      \* the status artifacts of the required deployments
  (* The registry *)
  status,      \* the own status artifact
  deploy,      \* the deploy artifact
  (* The API server, the cache and the work queue *)
  object,
  cache,       \* what Get returns
  lagging,     \* whether an event is on its way to the cache
  queued,      \* whether the key is in the queue
  delayed,     \* whether it will be added when a timer ends
  (* The reconcile *)
  pc,
  copy,        \* its local "propagation"
  stale,       \* whether the object was written by others since Get
  read,        \* its local "version"
  (* History and bounds *)
  outdated,    \* whether the copy was stale from the start
  swallowed,   \* whether the last reconcile ended at a save error it ignored
  changes, failures

environment == <<config, present, deployed, others, changes>>
registry == <<status, deploy>>
queue == <<queued, delayed>>
local == <<pc, copy, stale, read, outdated>>
vars == <<environment, registry, object, cache, lagging, queue, local, swallowed, failures>>

Phase == {"idle", "config", "saveConditions", "version", "saveReady", "publish",
          "saveStatus", "fetch", "saveReports", "propagate", "saveNotReady",
          "saveNotFetched"}

TypeOK ==
  /\ config \in BOOLEAN /\ present \in BOOLEAN
  /\ deployed \in Version /\ others \in [Required -> MaybeVersion]
  /\ status \in MaybeVersion /\ deploy \in MaybeVersion
  /\ object \in Object /\ cache \in Object /\ copy \in Object
  /\ lagging \in BOOLEAN /\ queued \in BOOLEAN /\ delayed \in BOOLEAN
  /\ pc \in Phase
  /\ stale \in BOOLEAN /\ outdated \in BOOLEAN /\ swallowed \in BOOLEAN
  /\ read \in MaybeVersion
  /\ changes \in 0..MaxChanges /\ failures \in 0..MaxFailures

Nothing == [d \in Required |-> None]

New == [ready |-> Unknown, fetched |-> Unknown, conditions |-> FALSE,
        version |-> None, seen |-> Nothing]

Init ==
  /\ config \in BOOLEAN /\ present \in BOOLEAN
  /\ deployed = 1 /\ others = Nothing
  /\ status = None /\ deploy = None
  /\ object = New /\ cache = New /\ copy = New
  /\ lagging = FALSE /\ queued = TRUE /\ delayed = FALSE
  /\ pc = "idle" /\ stale = FALSE /\ read = None
  /\ outdated = FALSE /\ swallowed = FALSE
  /\ changes = 0 /\ failures = 0

-----------------------------------------------------------------------------
(***************************************************************************)
(* The environment.                                                        *)
(***************************************************************************)

Change ==
  /\ changes < MaxChanges
  /\ changes' = changes + 1
  /\ UNCHANGED <<deploy, cache, queue, pc, copy, read, outdated, swallowed, failures>>

ConfigChanges ==
  /\ Change
  /\ config' = ~config
  /\ UNCHANGED <<present, deployed, others, status, object, lagging, stale>>

VersionObjectChanges ==
  /\ Change
  /\ present' = ~present
  /\ UNCHANGED <<config, deployed, others, status, object, lagging, stale>>

\* Another version is deployed: a newer one, or after a rollback any.
Deployed(v) ==
  /\ Change
  /\ v # deployed
  /\ v > deployed \/ "rollback" \in Disturbance
  /\ deployed' = v
  /\ UNCHANGED <<config, present, others, status, object, lagging, stale>>

OthersReport(d, v) ==
  /\ Change
  /\ v > others[d]
  /\ others' = [others EXCEPT ![d] = v]
  /\ UNCHANGED <<config, present, deployed, status, object, lagging, stale>>

\* Somebody edits the spec: every copy becomes stale.  If baseUrl was edited the
\* status is to be found in a registry that does not have it.
SpecEdited ==
  /\ Change
  /\ stale' = (pc # "idle")
  /\ lagging' = TRUE
  /\ status' \in {status} \cup (IF "move" \in Disturbance THEN {None} ELSE {})
  /\ UNCHANGED <<config, present, deployed, others, object>>

-----------------------------------------------------------------------------
(***************************************************************************)
(* The cache and the work queue.                                           *)
(***************************************************************************)

\* The watch delivers the object and the handler adds its key.
Deliver ==
  /\ lagging
  /\ cache' = object
  /\ lagging' = FALSE
  /\ queued' = TRUE
  /\ UNCHANGED <<environment, registry, object, delayed, local, swallowed, failures>>

TimerEnds ==
  /\ delayed
  /\ delayed' = FALSE
  /\ queued' = TRUE
  /\ UNCHANGED <<environment, registry, object, cache, lagging, local, swallowed, failures>>

\* The cache's resynchronisation, every ten hours by default, adds all keys.
Resync ==
  /\ ~queued
  /\ queued' = TRUE
  /\ UNCHANGED <<environment, registry, object, cache, lagging, delayed, local, swallowed, failures>>

\* The controller restarts: its cache is filled anew and all keys are added.
Restart ==
  /\ failures < MaxFailures
  /\ failures' = failures + 1
  /\ cache' = object /\ lagging' = FALSE
  /\ queued' = TRUE /\ delayed' = FALSE
  /\ pc' = "idle" /\ copy' = New /\ stale' = FALSE /\ read' = None
  /\ outdated' = FALSE /\ swallowed' = FALSE
  /\ UNCHANGED <<environment, registry, object>>

-----------------------------------------------------------------------------
(***************************************************************************)
(* The ways a call and a reconcile can end.                                *)
(***************************************************************************)

Fails == failures < MaxFailures /\ failures' = failures + 1

Works == UNCHANGED failures

\* Status().Update succeeds: the copy is the object, and if that changed it an
\* event follows.
Updated ==
  /\ ~stale
  /\ Works
  /\ object' = copy
  /\ lagging' = (lagging \/ object # copy)

\* It is refused because the copy is stale, fails, or only its answer is lost.
NotUpdated ==
  \/ stale /\ Works /\ UNCHANGED <<object, lagging>>
  \/ Fails /\ UNCHANGED <<object, lagging>>
  \/ /\ ~stale
     /\ Fails
     /\ object' = copy
     /\ lagging' = (lagging \/ object # copy)

Goto(phase) == pc' = phase /\ UNCHANGED <<queue, stale, outdated, swallowed>>

Leave ==
  /\ pc' = "idle"
  /\ copy' = New /\ stale' = FALSE /\ read' = None /\ outdated' = FALSE

\* RequeueAfter, or an error and its backoff: the key is added after a while.
Requeue == Leave /\ delayed' = TRUE /\ swallowed' = FALSE /\ UNCHANGED queued

\* An empty result and no error: nothing more happens.
ReturnEmpty == Leave /\ swallowed' = TRUE /\ UNCHANGED queue

-----------------------------------------------------------------------------
(***************************************************************************)
(* Reconcile.                                                              *)
(***************************************************************************)

\* A worker takes the key, and Get reads the cache.
Begin ==
  /\ pc = "idle"
  /\ queued
  /\ queued' = FALSE
  /\ pc' = "config"
  /\ copy' = cache
  /\ stale' = lagging
  /\ outdated' = lagging
  /\ UNCHANGED <<environment, registry, object, cache, lagging, delayed, read, swallowed, failures>>

NotReady_FaultyNoCondition(reason) ==
  /\ Goto("saveNotReady")
  /\ UNCHANGED copy

\* SetReadyConditionFalse up to its update.
NotReady(reason) ==
  /\ \E t \in Texts(reason) : copy' = [copy EXCEPT !.ready = [says |-> reason, text |-> t]]
  /\ Goto("saveNotReady")

\* The secret cannot be read or the backend is not supported.
BackendFails ==
  /\ pc = "config"
  /\ Fails
  /\ NotReady("BackendInitFailed")
  /\ UNCHANGED <<environment, registry, object, cache, lagging, read>>

ReadConfig_FaultyFreshStatus ==
  /\ pc = "config"
  /\ config
  /\ Works
  /\ copy' = [copy EXCEPT !.conditions = TRUE, !.ready = Unknown]
  /\ Goto("saveConditions")
  /\ UNCHANGED <<environment, registry, object, cache, lagging, read>>

\* GetConfig and the deploy conditions.
ReadConfig ==
  /\ pc = "config"
  /\ config
  /\ Works
  /\ copy' = [copy EXCEPT !.conditions = TRUE]
  /\ Goto("saveConditions")
  /\ UNCHANGED <<environment, registry, object, cache, lagging, read>>

\* There is no configuration that names the deployment, or it cannot be fetched.
ConfigMissing ==
  /\ pc = "config"
  /\ (~config /\ Works) \/ Fails
  /\ NotReady("ConfigInitFailed")
  /\ UNCHANGED <<environment, registry, object, cache, lagging, read>>

SaveNotReady_FaultyNoError ==
  /\ pc = "saveNotReady"
  /\ Updated \/ NotUpdated
  /\ Leave /\ swallowed' = FALSE /\ UNCHANGED queue
  /\ UNCHANGED <<environment, registry, cache>>

\* The end of SetReadyConditionFalse, whatever becomes of the update.
SaveNotReady ==
  /\ pc = "saveNotReady"
  /\ Updated \/ NotUpdated
  /\ Requeue
  /\ UNCHANGED <<environment, registry, cache>>

SaveConditions_FaultyOnlyIfChanged ==
  /\ pc = "saveConditions"
  /\ \/ Updated /\ Goto("version") /\ UNCHANGED <<copy, read>>
     \/ copy = cache /\ Works /\ Goto("version") /\ UNCHANGED <<object, lagging, copy, read>>
     \/ NotUpdated /\ Requeue
  /\ UNCHANGED <<environment, registry, cache>>

\* The first update of every reconcile, unconditional: a stale copy ends here.
SaveConditions ==
  /\ pc = "saveConditions"
  /\ \/ Updated /\ Goto("version") /\ UNCHANGED <<copy, read>>
     \/ NotUpdated /\ Requeue
  /\ UNCHANGED <<environment, registry, cache>>

\* Where the reconcile goes once the object is ready: the status is published
\* when it is not the recorded one.
Compare(obj, version) ==
  /\ Goto(IF obj.version # version THEN "publish" ELSE "fetch")
  /\ copy' = [obj EXCEPT !.version = version]

\* getVersion.
ReadVersion ==
  /\ pc = "version"
  /\ present
  /\ Works
  /\ read' = deployed
  /\ IF copy.ready = Holds
     THEN Compare(copy, deployed)
     ELSE copy' = [copy EXCEPT !.ready = Holds] /\ Goto("saveReady")
  /\ UNCHANGED <<environment, registry, object, cache, lagging>>

VersionMissing_FaultyReason ==
  /\ pc = "version"
  /\ (~present /\ Works) \/ Fails
  /\ copy' = [copy EXCEPT !.ready = [says |-> "Ready", text |-> NoText]]
  /\ Goto("saveNotReady")
  /\ UNCHANGED <<environment, registry, object, cache, lagging, read>>

\* There is no version to be read, or the API server does not answer.
VersionMissing ==
  /\ pc = "version"
  /\ (~present /\ Works) \/ Fails
  /\ NotReady("VersionMissing")
  /\ UNCHANGED <<environment, registry, object, cache, lagging, read>>

SaveReady_FaultyKeepGoing ==
  /\ pc = "saveReady"
  /\ (Updated \/ NotUpdated) /\ Compare(copy, read) /\ UNCHANGED read
  /\ UNCHANGED <<environment, registry, cache>>

\* The update that sets Ready to True.
SaveReady ==
  /\ pc = "saveReady"
  /\ \/ Updated /\ Compare(copy, read) /\ UNCHANGED read
     \/ NotUpdated /\ Requeue
  /\ UNCHANGED <<environment, registry, cache>>

\* The own status is published before the object records it.
PublishStatus ==
  /\ pc = "publish"
  /\ Works
  /\ status' = read
  /\ Goto("saveStatus")
  /\ UNCHANGED <<environment, deploy, object, cache, lagging, copy, read>>

PublishFails_FaultyIgnored ==
  /\ pc = "publish"
  /\ Fails
  /\ status' \in {status, read}
  /\ Goto("saveStatus")
  /\ UNCHANGED <<environment, deploy, object, cache, lagging, copy, read>>

\* The push fails, or is carried out and its acknowledgement lost.
PublishFails ==
  /\ pc = "publish"
  /\ Fails
  /\ status' \in {status, read}
  /\ Requeue
  /\ UNCHANGED <<environment, deploy, object, cache, lagging>>

\* A rejected update is answered with an empty result.
SaveStatus ==
  /\ pc = "saveStatus"
  /\ \/ Updated /\ Goto("fetch") /\ UNCHANGED <<copy, read>>
     \/ NotUpdated /\ ReturnEmpty
  /\ UNCHANGED <<environment, registry, cache>>

\* GetStatus of all required deployments, appended to their reports.
FetchStatus ==
  /\ pc = "fetch"
  /\ \A d \in Required : others[d] # None
  /\ Works
  /\ copy' = [copy EXCEPT !.fetched = Holds, !.seen = others]
  /\ Goto("saveReports")
  /\ UNCHANGED <<environment, registry, object, cache, lagging, read>>

\* A status is missing, or the registry does not answer.  The text is that of
\* the error that was first: errgroup's Wait drops the others.
FetchFails ==
  /\ pc = "fetch"
  /\ \E d \in Required :
       /\ (others[d] = None /\ Works) \/ Fails
       /\ \E t \in Texts(d) :
            copy' = [copy EXCEPT !.fetched = [says |-> "StatusesFetchFailed", text |-> t]]
  /\ Goto("saveNotFetched")
  /\ UNCHANGED <<environment, registry, object, cache, lagging, read>>

\* The error of the fetch is returned, that of this update is not looked at.
SaveNotFetched ==
  /\ pc = "saveNotFetched"
  /\ Updated \/ NotUpdated
  /\ Requeue
  /\ UNCHANGED <<environment, registry, cache>>

SaveReports_FaultyKeepGoing ==
  /\ pc = "saveReports"
  /\ Updated \/ NotUpdated
  /\ (Goto("propagate") /\ UNCHANGED <<copy, read>>) \/ Requeue
  /\ UNCHANGED <<environment, registry, cache>>

\* With the reports saved there is a version to propagate to, or not yet.
SaveReports ==
  /\ pc = "saveReports"
  /\ \/ Updated /\ Goto("propagate") /\ UNCHANGED <<copy, read>>
     \/ Updated /\ Requeue
     \/ NotUpdated /\ Requeue
  /\ UNCHANGED <<environment, registry, cache>>

\* The chosen version becomes the deploy artifact.
Propagate ==
  /\ pc = "propagate"
  /\ Works
  /\ \E d \in Required : deploy' = copy.seen[d]
  /\ Requeue
  /\ UNCHANGED <<environment, status, object, cache, lagging>>

PropagateFails ==
  /\ pc = "propagate"
  /\ Fails
  /\ deploy' = deploy \/ \E d \in Required : deploy' = copy.seen[d]
  /\ Requeue
  /\ UNCHANGED <<environment, status, object, cache, lagging>>

Reconcile ==
  \/ Begin
  \/ BackendFails \/ ReadConfig \/ ConfigMissing \/ SaveNotReady
  \/ SaveConditions \/ ReadVersion \/ VersionMissing \/ SaveReady
  \/ PublishStatus \/ PublishFails \/ SaveStatus
  \/ FetchStatus \/ FetchFails \/ SaveNotFetched
  \/ SaveReports \/ Propagate \/ PropagateFails

Next ==
  \/ ConfigChanges \/ VersionObjectChanges \/ SpecEdited
  \/ \E v \in Version : Deployed(v)
  \/ \E d \in Required, v \in Version : OthersReport(d, v)
  \/ Deliver \/ TimerEnds \/ Resync \/ Restart
  \/ Reconcile

\* The worker, the watch, timers and the resynchronisation go on; failures,
\* restarts and changes need not happen.
Fairness == WF_vars(Reconcile) /\ WF_vars(Deliver) /\ WF_vars(TimerEnds) /\ WF_vars(Resync)

Spec == Init /\ [][Next]_vars /\ Fairness

-----------------------------------------------------------------------------
(***************************************************************************)
(* Properties.                                                             *)
(***************************************************************************)

\* Past the first update.
Acting == pc \in {"version", "saveReady", "publish", "saveStatus", "fetch",
                  "saveReports", "propagate", "saveNotFetched"}

\* A reconcile that Get gave an outdated object never publishes, propagates or
\* calls itself ready: the optimistic lock of the first update stops it, whether
\* or not that update has anything to change.
StaleReadsStop == Acting => ~outdated

\* When a reconcile publishes or propagates, the saved object says Ready: what
\* it found broken before is mended on record first, also when the reconcile
\* that recorded it ran before a restart or an edit.
ReadyOnRecord ==
  pc \in {"publish", "saveStatus", "fetch", "saveReports", "propagate"} => object.ready = Holds

\* A version is propagated only on a report that is saved, so that what
\* justified it survives a restart right after.
SavedBeforeUse ==
  [][deploy' # deploy => \E d \in Required : deploy' = object.seen[d]]_vars

\* Between two reconciles there is always something that leads to the next one
\* - the key in the queue, a timer, an event on its way - except after the save
\* error that Reconcile ignores, and then only if it was no conflict.
NeverForgotten ==
  pc = "idle" => queued \/ delayed \/ lagging \/ (swallowed /\ failures > 0)

\* The Ready condition tells the truth in the end: when nothing changes any more
\* it is True exactly if configuration and version object can be read.
ReadyTells == <>[](object.ready = Holds <=> (config /\ present))

\* The failures that last while nothing changes.
Lasting ==
  IF ~config THEN {"ConfigInitFailed"}
  ELSE IF ~present THEN {"VersionMissing"}
  ELSE {d \in Required : others[d] = None}

\* They show one text, or none: at most one failure, and always the same text.
Steady == \A f, g \in Lasting : \A t \in Texts(f), u \in Texts(g) : t = u

\* The reconciler does not keep itself busy: when nothing changes any more and
\* what still fails has one text, the object stops changing, so its own writes
\* stop waking it up.  (Two missing statuses are not steady: either may be the
\* first to fail, every other text is a change of the object, and every change
\* is the next reconcile.)
Settles == <>[][Steady => object' = object]_object

\* "Reads the exact version that was deployed so that accurate version can be
\* published in the status" (types.go): the status artifact ends up naming the
\* deployed version.
StatusAccurate == <>[](config /\ present => status = deployed)

=============================================================================
