---------------------------- MODULE StatusReport -----------------------------
(***************************************************************************)
(* One Propagation polling the status of one other deployment.  The other  *)
(* deployment's controller overwrites its status artifact at any time; the *)
(* reconciler fetches it, stamps it with its own clock and appends it to   *)
(* the report kept in Status.DeploymentStatusesReports.                    *)
(*                                                                         *)
(* A poll has three outcomes.  Every required deployment answered and the  *)
(* update was accepted: the report is the appended and compacted one.      *)
(* Another deployment did not answer: the reconciler saves the old reports *)
(* for the sake of the condition, and what AppendStatus wrote in place is  *)
(* in them.  The API server refuses the update because the state is none   *)
(* that the CRD admits: nothing is saved.  A Tick without a poll is one    *)
(* that was delayed, or whose update failed for another reason.            *)
(***************************************************************************)
EXTENDS StatusHistory

CONSTANTS
  Version,         \* the versions the other deployment may run
  PublishedState,  \* the health states that are published for it
  MaxTime,         \* bound on the clock
  MaxReport        \* bound on the length of the report

ASSUME StateAssumption == PublishedState \subseteq HealthState \cup Admitted
ASSUME BoundAssumption == MaxTime \in Nat /\ MaxReport \in Nat

Unseen == -1       \* "no such time"

VARIABLES
  now,             \* the reconciler's clock
  artifact,        \* the status artifact: at most one [version, state]
  report,          \* the report, a sequence of statuses
  (* History variables: what the polls since the report was begun returned *)
  polled,          \* the answer recorded last (a set of at most one)
  failed,          \* versions with a failure that was recorded
  firstHealthy,    \* when a healthy answer was first recorded for a version
  interrupted      \* when a poll first saw any version failing after that

vars == <<now, artifact, report, polled, failed, firstHealthy, interrupted>>

\* What an artifact says: the registry checks no state.
Reported == [version : Version, state : HealthState \cup Admitted]

TypeOK ==
  /\ now \in 0..MaxTime
  /\ artifact \in SUBSET Reported
  /\ report \in Seq(DeploymentStatus(Version))
  /\ polled \in SUBSET Reported
  /\ failed \in SUBSET Version
  /\ firstHealthy \in [Version -> Int]
  /\ interrupted \in [Version -> Int]

ClearHistory ==
  /\ polled' = {}
  /\ failed' = {}
  /\ firstHealthy' = [v \in Version |-> Unseen]
  /\ interrupted' = [v \in Version |-> Unseen]

Init ==
  /\ now = 0
  /\ artifact = {}
  /\ report = <<>>
  /\ polled = {}
  /\ failed = {}
  /\ firstHealthy = [v \in Version |-> Unseen]
  /\ interrupted = [v \in Version |-> Unseen]

-----------------------------------------------------------------------------
(***************************************************************************)
(* Actions.                                                                *)
(***************************************************************************)

\* A status is published for the other deployment (PublishStatus).
Publish(v, s) ==
  /\ artifact' = {[version |-> v, state |-> s]}
  /\ UNCHANGED <<now, report, polled, failed, firstHealthy, interrupted>>

Failing(a) == a.state \notin {"Healthy", "Pending"}

\* The fetched status with Start = metav1.Now().
Stamped(a) == [version |-> a.version, state |-> a.state, start |-> now]

ObserveInterruption(a) ==
  interrupted' =
    [v \in Version |->
       IF Failing(a) /\ firstHealthy[v] # Unseen /\ interrupted[v] = Unseen
       THEN now ELSE interrupted[v]]

\* What a recorded answer adds to the history variables.
Observe(a) ==
  /\ polled' = {a}
  /\ failed' = IF Failing(a) THEN failed \cup {a.version} ELSE failed
  /\ firstHealthy' =
       [v \in Version |->
          IF v = a.version /\ a.state = "Healthy" /\ firstHealthy[v] = Unseen
          THEN now ELSE firstHealthy[v]]
  /\ ObserveInterruption(a)

Poll_FaultyUnvalidated(a) ==
  /\ Len(AppendStatus(report, Stamped(a))) <= MaxReport
  /\ report' = AppendStatus(report, Stamped(a))
  /\ Observe(a)
  /\ UNCHANGED <<now, artifact>>

\* Every GetStatus succeeded, and the API server admits the update.
Poll(a) ==
  /\ a.state \in Admitted
  /\ Len(AppendStatus(report, Stamped(a))) <= MaxReport
  /\ report' = AppendStatus(report, Stamped(a))
  /\ Observe(a)
  /\ UNCHANGED <<now, artifact>>

\* This GetStatus succeeded and another one failed: the new reports are thrown
\* away, but an entry that was updated in place is part of the old one too,
\* and is saved with it: without the compaction, which only the copy saw.
PollFails(a) ==
  /\ a.state \in Admitted
  /\ Overwrites(report, Stamped(a))
  /\ report' = Overwritten(report, Stamped(a))
  /\ Observe(a)
  /\ UNCHANGED <<now, artifact>>

\* The API server refuses either update for a state that the CRD does not
\* admit: Reconcile returns the error, or ignores it, and nothing is saved.
PollRefused(a) ==
  /\ a.state \notin Admitted
  /\ ObserveInterruption(a)
  /\ UNCHANGED <<now, artifact, report, polled, failed, firstHealthy>>

\* A reconcile under a configuration that does not require the deployment
\* rebuilds the reports without it.
Forget ==
  /\ report' = <<>>
  /\ ClearHistory
  /\ UNCHANGED <<now, artifact>>

Tick ==
  /\ now < MaxTime
  /\ now' = now + 1
  /\ UNCHANGED <<artifact, report, polled, failed, firstHealthy, interrupted>>

Next ==
  \/ \E v \in Version, s \in PublishedState : Publish(v, s)
  \/ \E a \in artifact : Poll(a)
  \/ \E a \in artifact : PollFails(a)
  \/ \E a \in artifact : PollRefused(a)
  \/ Forget
  \/ Tick

Spec == Init /\ [][Next]_vars

-----------------------------------------------------------------------------
(***************************************************************************)
(* Properties.                                                             *)
(***************************************************************************)

Healthy(v) == VersionHealthyDuration(report, v, now)

\* The last entry of the report is the answer recorded last, whatever
\* AppendStatus merged, restamped or dropped on the way, and whether the whole
\* poll succeeded or not: the deployWith check of Reconcile reads nothing else
\* (LastStatus().Version and .State).
LatestRecorded ==
  \A a \in polled :
    /\ report # <<>>
    /\ LastStatus(report).version = a.version
    /\ LastStatus(report).state = a.state

\* The report is chronological, no entry lies in the future, and no pending
\* entry survives the outcome of the same version: the shape that
\* VersionHealthyDuration relies on, kept by AppendStatus and by the in-place
\* change that a partly failed poll saves.  (Two adjacent entries may say the
\* same after such a poll: nothing compacts them later.)
WellFormed ==
  /\ \A i \in 1..Len(report) : report[i].start <= now
  /\ \A i \in 1..Len(report), j \in 1..Len(report) :
       i <= j => report[i].start <= report[j].start
  /\ Compact(report)

\* Once a failure of a version is on record its healthy duration is zero for as
\* long as the report exists, however the health flaps afterwards: neither the
\* compaction nor a partly failed poll loses it.  (A failure that the API
\* server refused is not on record: see ExactWhenHealthy.)
FailureRemembered == \A v \in failed : Healthy(v) = 0

\* A version is never credited with more healthy time than has passed since a
\* healthy answer was first recorded for it, and never when a failure of it is
\* on record: NextVersion cannot release it before its bake time.
BakeNeverEarly ==
  \A v \in Version :
    Healthy(v) > 0 =>
      /\ v \notin failed
      /\ firstHealthy[v] # Unseen
      /\ Healthy(v) <= now - firstHealthy[v]

\* A poll that records what was recorded before leaves the report as it was,
\* start stamps included: saving it is no change of the object, so the
\* reconciler does not wake itself up by recording a status.
QuietPoll == [][\A a \in polled : polled' = polled => report' = report]_<<report, polled>>

\* As long as every entry is healthy (Reconcile publishes nothing else today)
\* the credit is also never late: it is the whole time since the first recorded
\* healthy answer, later versions and rollbacks included.  So it is across an
\* outage whose failures the API server refused to save.
ExactWhenHealthy ==
  (\A i \in 1..Len(report) : report[i].state = "Healthy") =>
    \A v \in Version :
      firstHealthy[v] # Unseen => Healthy(v) = now - firstHealthy[v]

\* "Continuous healthy states for the specified duration" (types.go:75): the
\* credit ends when a poll first saw the deployment failing.
ContinuousHealth ==
  \A v \in Version :
    interrupted[v] # Unseen => Healthy(v) <= interrupted[v] - firstHealthy[v]

=============================================================================
