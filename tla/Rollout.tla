------------------------------- MODULE Rollout -------------------------------
(***************************************************************************)
(* All deployments of one application propagating versions to one another  *)
(* through the shared backend.  Each deployment has a Propagation that its *)
(* controller reconciles over and over; reconciles of different            *)
(* deployments interleave between any two calls to the backend or to the   *)
(* Kubernetes API.  CI (pushing manifests), the GitOps agent (applying what*)
(* is under the deploy tag) and kpctl (publishing configurations) are the  *)
(* environment.                                                            *)
(*                                                                         *)
(* Time is kept finite by keeping it relative: "now" is always 0, a stamp  *)
(* is the negated age of an event, and a Tick makes every stamp one older, *)
(* down to -Horizon; with Horizon at least every bake time, no comparison  *)
(* can tell older ages apart (all published states are healthy, so every   *)
(* healthy duration is the age of one stamp).                              *)
(***************************************************************************)
EXTENDS DeployConditions, FiniteSets

CONSTANTS
  Config,       \* the configurations that may be published
  Content,      \* the sequence of environments in each
  Replacement,  \* the configurations that may replace each of them
  MaxEdits,     \* bound, for each: how often the configuration is replaced
  Newest,       \* bound, for each: the last version CI builds
  Horizon       \* the greatest age that is told apart

Version == UNION {1..Newest[c] : c \in Config}

NoConfig == ""  \* a reconcile has not read one

\* The configurations that replace one another.
Family(c) == {c} \cup Replacement[c]

ASSUME VersionAssumption == Newest \in [Config -> Nat \ {0}]
ASSUME ReplacementAssumption ==
  /\ Replacement \in [Config -> SUBSET Config]
  /\ NoConfig \notin Config
  /\ MaxEdits \in [Config -> Nat]
  /\ \A c \in Config : \A x \in Family(c) :
       Family(x) = Family(c) /\ Newest[x] = Newest[c] /\ MaxEdits[x] = MaxEdits[c]
ASSUME MarkAssumption == NoVersion \notin Version /\ Latest \notin Version /\ Latest # NoVersion
ASSUME HorizonAssumption == Horizon \in Nat
ASSUME ContentAssumption ==
  Content \in [Config -> Seq(Seq([bakeTime : 0..Horizon, deployments : Seq(STRING)]))]

Unset == 0      \* no status artifact; the empty version

VARIABLES
  config,       \* the published configuration
  edits,        \* how often it has been replaced
  manifest,     \* the newest version CI pushed a manifest of; "latest"
  deploy,       \* the version under the deploy tag
  running,      \* the version the version object reports
  status,       \* the version in the status artifact, always healthy
  recorded,     \* Status.DeploymentStatus.Version, saved in the object
  reports,      \* Status.DeploymentStatusesReports, saved in the object
  pc,           \* where the reconcile of the deployment stands
  basis,        \* its local "config"
  read,         \* its local "version"
  fetched,      \* its local "reports", as far as filled in
  choice        \* its local "propagateVersion"

vars == <<config, edits, manifest, deploy, running, status, recorded, reports,
          pc, basis, read, fetched, choice>>

world == <<config, edits, manifest, deploy, running>>
object == <<recorded, reports>>
locals == <<pc, basis, read, fetched, choice>>

\* What every reconcile derives from each configuration.
Named == [c \in Config |-> Deployments(Content[c])]
Conditions == [c \in Config |-> [d \in Named[c] |-> DeployConditions(Content[c], d)]]
BakeTimes == [c \in Config |-> [d \in Named[c] |-> DeploymentBakeTime(Content[c], d)]]
Places == [c \in Config |-> [d \in Named[c] |-> PositionOf(Content[c], d)]]
Everyone == [c \in Config |-> UNION {Named[x] : x \in Family(c)}]

\* Every deployment that has a Propagation.
Deployment == Everyone[config]

\* What a reconcile goes by: the configuration it has read.
After(d) == Conditions[basis[d]][d].after
With(d) == Conditions[basis[d]][d].with
RequiredBy(c, d) == Conditions[c][d].with \cup Names(Conditions[c][d].after)
Required(d) == RequiredBy(basis[d], d)

Stamp == (-Horizon)..0
Phase == {"idle", "publish", "save", "fetch", "propagate"}

\* The healthy status of version v observed now.
StatusOf(v) == [version |-> v, state |-> "Healthy", start |-> 0]

Init ==
  /\ config \in Config
  /\ edits = 0
  /\ manifest = [d \in Deployment |-> 1]
  /\ deploy = [d \in Deployment |-> 1]
  /\ running = [d \in Deployment |-> Unset]
  /\ status = [d \in Deployment |-> Unset]
  /\ recorded = [d \in Deployment |-> Unset]
  /\ reports = [d \in Deployment |-> [u \in {} |-> <<>>]]
  /\ pc = [d \in Deployment |-> "idle"]
  /\ basis = [d \in Deployment |-> NoConfig]
  /\ read = [d \in Deployment |-> Unset]
  /\ fetched = [d \in Deployment |-> [u \in {} |-> <<>>]]
  /\ choice = [d \in Deployment |-> NoVersion]

-----------------------------------------------------------------------------
(***************************************************************************)
(* The environment.                                                        *)
(***************************************************************************)

\* CI builds the next version and pushes its manifest, also as "latest".
PushManifest(d) ==
  /\ manifest[d] < Newest[config]
  /\ manifest' = [manifest EXCEPT ![d] = @ + 1]
  /\ UNCHANGED <<config, edits, deploy, running, status, object, locals>>

\* Another configuration is published.
PublishConfig(c) ==
  /\ c \in Replacement[config]
  /\ edits < MaxEdits[config]
  /\ edits' = edits + 1
  /\ config' = c
  /\ UNCHANGED <<manifest, deploy, running, status, object, locals>>

\* The GitOps agent applies the deploy artifact and reports its version.
Apply(d) ==
  /\ running[d] # deploy[d]
  /\ running' = [running EXCEPT ![d] = deploy[d]]
  /\ UNCHANGED <<config, edits, manifest, deploy, status, object, locals>>

Older(t) == IF t > -Horizon THEN t - 1 ELSE t

Aged(h) == [i \in 1..Len(h) |-> [h[i] EXCEPT !.start = Older(@)]]

AgedReports(r) == [d \in Deployment |-> [u \in DOMAIN r[d] |-> Aged(r[d][u])]]

Tick ==
  /\ reports' = AgedReports(reports)
  /\ fetched' = AgedReports(fetched)
  /\ UNCHANGED <<config, edits, manifest, deploy, running, status, recorded, pc, basis, read, choice>>

-----------------------------------------------------------------------------
(***************************************************************************)
(* A reconcile.  Each action ends at a call that other reconciles can be   *)
(* interleaved with; a failed call or a crash ends the reconcile (Abort).  *)
(***************************************************************************)

Return(d) ==
  /\ pc' = [pc EXCEPT ![d] = "idle"]
  /\ basis' = [basis EXCEPT ![d] = NoConfig]
  /\ read' = [read EXCEPT ![d] = Unset]
  /\ fetched' = [fetched EXCEPT ![d] = [u \in {} |-> <<>>]]
  /\ choice' = [choice EXCEPT ![d] = NoVersion]

Goto(d, phase) == pc' = [pc EXCEPT ![d] = phase]

\* Get the object and the configuration, derive the conditions, read the version.
\* A configuration that does not name the deployment ends the reconcile, and so
\* does a version object without a version, before anything runs.
Begin(d) ==
  /\ pc[d] = "idle"
  /\ d \in Named[config]
  /\ running[d] # Unset
  /\ basis' = [basis EXCEPT ![d] = config]
  /\ read' = [read EXCEPT ![d] = running[d]]
  /\ Goto(d, IF recorded[d] # running[d] THEN "publish" ELSE "fetch")
  /\ UNCHANGED <<world, status, object, fetched, choice>>

PublishStatus_FaultyDeployed(d) ==
  /\ pc[d] = "publish"
  /\ status' = [status EXCEPT ![d] = deploy[d]]
  /\ Goto(d, "save")
  /\ UNCHANGED <<world, object, basis, read, fetched, choice>>

PublishStatus(d) ==
  /\ pc[d] = "publish"
  /\ status' = [status EXCEPT ![d] = read[d]]
  /\ Goto(d, "save")
  /\ UNCHANGED <<world, object, basis, read, fetched, choice>>

\* Status().Update with the new DeploymentStatus.
SaveStatus(d) ==
  /\ pc[d] = "save"
  /\ recorded' = [recorded EXCEPT ![d] = read[d]]
  /\ Goto(d, "fetch")
  /\ UNCHANGED <<world, status, reports, basis, read, fetched, choice>>

\* FindDeploymentStatusReport, or a new report.
Report(d, u) == IF u \in DOMAIN reports[d] THEN reports[d][u] ELSE <<>>

\* One goroutine of the error group: GetStatus(u), appended to its report.
FetchStatus(d, u) ==
  /\ pc[d] = "fetch"
  /\ u \in Required(d) \ DOMAIN fetched[d]
  /\ status[u] # Unset
  /\ fetched' = [fetched EXCEPT ![d] =
       [x \in DOMAIN @ \cup {u} |->
          IF x = u THEN AppendStatus(Report(d, u), StatusOf(status[u])) ELSE @[x]]]
  /\ UNCHANGED <<world, status, object, pc, basis, read, choice>>

\* GetStatus(u) fails: u has not published a status yet.
StatusMissing(d, u) ==
  /\ pc[d] = "fetch"
  /\ u \in Required(d)
  /\ status[u] = Unset
  /\ Return(d)
  /\ UNCHANGED <<world, status, object>>

\* The version to propagate to, if any, from the reports just saved.
Decision(d) ==
  IF WaveCaughtUp(With(d), BakeTimes[basis[d]], fetched[d], read[d], 0)
  THEN NextVersion(After(d), fetched[d], 0)
  ELSE NoVersion

SaveReports_FaultyFollowedOnly(d) ==
  /\ pc[d] = "fetch"
  /\ DOMAIN fetched[d] = Required(d)
  /\ reports' = [reports EXCEPT ![d] = [u \in Names(After(d)) |-> fetched[d][u]]]
  /\ Return(d)
  /\ UNCHANGED <<world, status, recorded>>

SaveReports_FaultyKeepGoing(d) ==
  /\ pc[d] = "fetch"
  /\ DOMAIN fetched[d] = Required(d)
  /\ reports' = reports \/ reports' = [reports EXCEPT ![d] = fetched[d]]
  /\ LET version == Decision(d)
     IN  IF version = NoVersion
         THEN Return(d)
         ELSE /\ choice' = [choice EXCEPT ![d] = version]
              /\ Goto(d, "propagate")
              /\ UNCHANGED <<basis, read, fetched>>
  /\ UNCHANGED <<world, status, recorded>>

\* Status().Update with the new reports, and the decision on them.
SaveReports(d) ==
  /\ pc[d] = "fetch"
  /\ DOMAIN fetched[d] = Required(d)
  /\ reports' = [reports EXCEPT ![d] = fetched[d]]
  /\ LET version == Decision(d)
     IN  IF version = NoVersion
         THEN Return(d)
         ELSE /\ choice' = [choice EXCEPT ![d] = version]
              /\ Goto(d, "propagate")
              /\ UNCHANGED <<basis, read, fetched>>
  /\ UNCHANGED <<world, status, recorded>>

\* The version the chosen manifest tag denotes.
Chosen(d) == IF choice[d] = Latest THEN manifest[d] ELSE choice[d]

\* Propagate: fetch the manifest, publish it under the deploy tag.
Propagate(d) ==
  /\ pc[d] = "propagate"
  /\ Chosen(d) <= manifest[d]
  /\ deploy' = [deploy EXCEPT ![d] = Chosen(d)]
  /\ Return(d)
  /\ UNCHANGED <<config, edits, manifest, running, status, object>>

\* CI has not pushed the manifest of the version for this deployment.
ManifestMissing(d) ==
  /\ pc[d] = "propagate"
  /\ Chosen(d) > manifest[d]
  /\ Return(d)
  /\ UNCHANGED <<world, status, object>>

\* A call fails before its effect, or the controller restarts.
Abort(d) ==
  /\ pc[d] # "idle"
  /\ Return(d)
  /\ UNCHANGED <<world, status, object>>

Step(d) ==
  \/ Begin(d)
  \/ PublishStatus(d)
  \/ SaveStatus(d)
  \/ \E u \in Deployment : FetchStatus(d, u)
  \/ \E u \in Deployment : StatusMissing(d, u)
  \/ SaveReports(d)
  \/ Propagate(d)
  \/ ManifestMissing(d)

\* Everything but time passing and calls failing.
Move == \E d \in Deployment : PushManifest(d) \/ Apply(d) \/ Step(d)

Next ==
  \/ Move
  \/ \E c \in Config : PublishConfig(c)
  \/ \E d \in Deployment : Abort(d)
  \/ Tick

Spec == Init /\ [][Next]_vars

-----------------------------------------------------------------------------
(***************************************************************************)
(* Properties.                                                             *)
(***************************************************************************)

\* The configurations that name d.
Naming(d) == {c \in Family(config) : d \in Named[c]}

History(h) ==
  h \in Seq([version : Version, state : {"Healthy"}, start : Stamp])

TypeOK ==
  /\ config \in Config /\ edits \in 0..MaxEdits[config]
  /\ manifest \in [Deployment -> Version]
  /\ deploy \in [Deployment -> Version]
  /\ running \in [Deployment -> Version \cup {Unset}]
  /\ status \in [Deployment -> Version \cup {Unset}]
  /\ recorded \in [Deployment -> Version \cup {Unset}]
  /\ \A d \in Deployment :
       /\ basis[d] \in Family(config) \cup {NoConfig} /\ (basis[d] = NoConfig <=> pc[d] = "idle")
       /\ DOMAIN reports[d] \in {{}} \cup {RequiredBy(c, d) : c \in Naming(d)}
       /\ \A u \in DOMAIN reports[d] : History(reports[d][u])
       /\ DOMAIN fetched[d] \subseteq (IF pc[d] = "idle" THEN {} ELSE Required(d))
       /\ \A u \in DOMAIN fetched[d] : History(fetched[d][u]) /\ fetched[d][u] # <<>>
  /\ pc \in [Deployment -> Phase]
  /\ read \in [Deployment -> Version \cup {Unset}]
  /\ choice \in [Deployment -> Version \cup {NoVersion, Latest}]

\* A version reaches the deployments in the order of the configuration: none is
\* ever given a version newer than one in an earlier wave or environment was, as
\* long as the configuration stays.  (A longer bake time may send a deployment
\* back behind those that follow it.)
NeverAhead ==
  edits = 0 =>
    \A d \in Named[config], u \in Named[config] :
      Precedes(Places[config][u], Places[config][d]) => deploy[d] <= deploy[u]

=============================================================================
