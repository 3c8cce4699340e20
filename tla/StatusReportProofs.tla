------------------------- MODULE StatusReportProofs -------------------------
(***************************************************************************)
(* The invariants of StatusReport, proved for every set of versions, every *)
(* set of published states and every bound.                                *)
(***************************************************************************)
EXTENDS StatusReport, StatusHistoryProofs

\* Every version with a recorded failure has a failing entry.
FailureKept ==
  \A v \in failed : \E i \in 1..Len(report) :
    report[i].version = v /\ Failing(report[i])

\* A healthy entry is no older than the first recorded healthy answer about
\* its version, and that one is in the past.
HealthyStamped ==
  /\ \A v \in Version : firstHealthy[v] <= now
  /\ \A i \in 1..Len(report) :
       report[i].state = "Healthy" =>
         /\ firstHealthy[report[i].version] # Unseen
         /\ firstHealthy[report[i].version] <= report[i].start

\* The first recorded healthy answer about a version has an entry of its own.
HealthKept ==
  \A v \in Version :
    firstHealthy[v] # Unseen =>
      \E i \in 1..Len(report) :
        /\ report[i].version = v /\ report[i].state = "Healthy"
        /\ report[i].start = firstHealthy[v]

\* The inductive invariant.
IInv ==
  /\ TypeOK
  /\ WellFormed
  /\ LatestRecorded
  /\ FailureKept
  /\ HealthyStamped
  /\ HealthKept

-----------------------------------------------------------------------------
(***************************************************************************)
(* Induction.                                                              *)
(***************************************************************************)

LEMMA InitIInv == Init => IInv
<1> SUFFICES ASSUME Init PROVE IInv
  OBVIOUS
<1>1. report = <<>> /\ report \in Seq(DeploymentStatus(Version)) /\ Len(report) = 0
  BY EmptySeq DEF Init
<1>2. TypeOK
  BY <1>1, BoundAssumption DEF Init, TypeOK, Unseen
<1>3. WellFormed
  BY <1>1 DEF WellFormed, Compact
<1>4. LatestRecorded /\ FailureKept /\ HealthyStamped /\ HealthKept
  BY <1>1 DEF Init, LatestRecorded, FailureKept, HealthyStamped, HealthKept, Unseen
<1> QED
  BY <1>2, <1>3, <1>4 DEF IInv

\* An answer that is recorded, in the whole report or in place, keeps the
\* invariant.
LEMMA RecordedIInv ==
  ASSUME IInv, NEW a \in artifact, a.state \in Admitted,
         \/ report' = AppendStatus(report, Stamped(a))
         \/ Overwrites(report, Stamped(a)) /\ report' = Overwritten(report, Stamped(a)),
         Observe(a), UNCHANGED <<now, artifact>>
  PROVE  IInv'
<1> DEFINE s == Stamped(a)
           n == Len(report')
<1> USE DEF IInv
<1>1. /\ a \in Reported /\ a.version \in Version /\ a.state \in Admitted
      /\ now \in Nat
      /\ report \in Seq(DeploymentStatus(Version))
  BY BoundAssumption DEF TypeOK, Reported
<1>2. s \in DeploymentStatus(Version) /\ s.version = a.version /\ s.state = a.state
      /\ s.start = now
  BY <1>1 DEF DeploymentStatus, Stamped
<1>3. UNCHANGED <<now, artifact>>
  OBVIOUS
<1>4. /\ report' \in Seq(DeploymentStatus(Version))
      /\ Records(report, s, report')
      /\ Compact(report')
  BY <1>1, <1>2, AppendStatusRecords, OverwrittenRecords DEF WellFormed
<1>5. /\ Len(report) \in Nat /\ n \in Nat /\ n >= 1
      /\ \A i \in 1..Len(report) : report[i] \in DeploymentStatus(Version)
      /\ \A i \in 1..n : report'[i] \in DeploymentStatus(Version)
  <2>1. n \in Nat /\ Len(report) \in Nat
    BY <1>1, <1>4, LenProperties
  <2>2. n # 0
    BY <1>4, EmptySeq DEF Records
  <2> QED
    BY <1>1, <1>4, <2>1, <2>2, ElementOfSeq
<1>6. /\ polled' = {a}
      /\ failed' = IF Failing(a) THEN failed \cup {a.version} ELSE failed
      /\ firstHealthy' =
           [v \in Version |->
              IF v = a.version /\ a.state = "Healthy" /\ firstHealthy[v] = Unseen
              THEN now ELSE firstHealthy[v]]
      /\ interrupted' =
           [v \in Version |->
              IF Failing(a) /\ firstHealthy[v] # Unseen /\ interrupted[v] = Unseen
              THEN now ELSE interrupted[v]]
  BY DEF Observe, ObserveInterruption
<1>7. TypeOK'
  <2>1. now' \in 0..MaxTime /\ artifact' \in SUBSET Reported
    BY <1>3 DEF TypeOK
  <2>2. polled' \in SUBSET Reported /\ failed' \in SUBSET Version
    BY <1>1, <1>6 DEF TypeOK
  <2>3. firstHealthy' \in [Version -> Int] /\ interrupted' \in [Version -> Int]
    BY <1>1, <1>6 DEF TypeOK
  <2> QED
    BY <1>4, <2>1, <2>2, <2>3 DEF TypeOK
<1>8. \A i \in 1..(n - 1) : i \in 1..Len(report) /\ report'[i] = report[i]
  BY <1>4, <1>5 DEF Records
<1>9. /\ report'[n].version = a.version /\ report'[n].state = a.state
      /\ \/ report'[n] = s
         \/ n <= Len(report) /\ report'[n] = report[n]
         \/ /\ a.state # "Healthy"
            /\ n = Len(report)
            /\ report'[n].start = report[n].start
  BY <1>2, <1>4 DEF Records
<1>10. WellFormed'
  <2>1. \A i \in 1..n : report'[i].start <= now
    <3> TAKE i \in 1..n
    <3>1. CASE i \in 1..Len(report) /\ report'[i].start = report[i].start
      BY <3>1 DEF WellFormed
    <3>2. CASE i = n /\ report'[n] = s
      BY <1>1, <1>2, <3>2
    <3> QED
      BY <1>5, <1>8, <1>9, <3>1, <3>2
  <2>2. ASSUME NEW i \in 1..n, NEW j \in 1..n, i <= j
        PROVE  report'[i].start <= report'[j].start
    <3>1. CASE j # n
      BY <1>5, <1>8, <2>2, <3>1 DEF WellFormed
    <3>2. CASE i = n
      <4>1. i = j /\ report'[i].start \in Int
        BY <1>5, <2>2, <3>2 DEF DeploymentStatus
      <4> QED
        BY <4>1
    <3>3. CASE j = n /\ i # n
      <4>1. i \in 1..Len(report) /\ report'[i] = report[i] /\ report[i].start <= now
        BY <1>5, <1>8, <3>3 DEF WellFormed
      <4>2. CASE report'[n] = s
        BY <1>2, <3>3, <4>1, <4>2
      <4>3. CASE report'[n] # s
        <5>1. n <= Len(report) /\ report'[n].start = report[n].start
          BY <1>5, <1>9, <4>3
        <5> QED
          BY <1>5, <2>2, <3>3, <4>1, <5>1 DEF WellFormed
      <4> QED
        BY <4>2, <4>3
    <3> QED
      BY <3>1, <3>2, <3>3
  <2> QED
    BY <1>3, <1>4, <2>1, <2>2 DEF WellFormed
<1>11. LatestRecorded'
  BY <1>4, <1>6, <1>9 DEF LatestRecorded, LastStatus, Records
<1>12. FailureKept'
  <2> SUFFICES ASSUME NEW v \in failed'
               PROVE  \E i \in 1..n : report'[i].version = v /\ Failing(report'[i])
    BY DEF FailureKept
  <2>1. CASE v \in failed
    <3>1. PICK i \in 1..Len(report) : report[i].version = v /\ Failing(report[i])
      BY <2>1 DEF FailureKept
    <3>2. i <= n /\ report'[i] = report[i]
      BY <1>4, <3>1 DEF Records, Failing
    <3> QED
      BY <3>1, <3>2
  <2>2. CASE v \notin failed
    BY <1>5, <1>6, <1>9, <2>2 DEF Failing
  <2> QED
    BY <2>1, <2>2
<1>13. HealthyStamped'
  <2>1. firstHealthy \in [Version -> Int] /\ now' = now
    BY <1>3 DEF TypeOK
  <2>2. \A v \in Version : firstHealthy'[v] <= now'
    BY <1>1, <1>6, <2>1 DEF HealthyStamped
  <2> SUFFICES ASSUME NEW i \in 1..n, report'[i].state = "Healthy"
               PROVE  /\ firstHealthy'[report'[i].version] # Unseen
                      /\ firstHealthy'[report'[i].version] <= report'[i].start
    BY <2>2 DEF HealthyStamped
  <2>3. CASE i <= Len(report) /\ report'[i] = report[i]
    <3>1. i \in 1..Len(report) /\ report[i].version \in Version
      BY <1>5, <2>3 DEF DeploymentStatus
    <3>2. /\ firstHealthy[report[i].version] # Unseen
          /\ firstHealthy[report[i].version] <= report[i].start
      BY <2>3, <3>1 DEF HealthyStamped
    <3> QED
      BY <1>6, <2>1, <2>3, <3>1, <3>2
  <2>4. CASE i = n /\ report'[n] = s
    <3>1. a.state = "Healthy" /\ report'[i].version = a.version /\ report'[i].start = now
      BY <1>2, <2>4
    <3>2. CASE firstHealthy[a.version] = Unseen
      BY <1>1, <1>6, <3>1, <3>2 DEF Unseen
    <3>3. CASE firstHealthy[a.version] # Unseen
      <4>1. firstHealthy'[a.version] = firstHealthy[a.version]
        BY <1>1, <1>6, <3>3
      <4>2. firstHealthy[a.version] <= now
        BY <1>1 DEF HealthyStamped
      <4> QED
        BY <3>1, <3>3, <4>1, <4>2
    <3> QED
      BY <3>2, <3>3
  <2> QED
    BY <1>5, <1>8, <1>9, <2>3, <2>4
<1>14. HealthKept'
  <2> SUFFICES ASSUME NEW v \in Version, firstHealthy'[v] # Unseen
               PROVE  \E i \in 1..n :
                        /\ report'[i].version = v /\ report'[i].state = "Healthy"
                        /\ report'[i].start = firstHealthy'[v]
    BY DEF HealthKept
  <2>1. CASE firstHealthy[v] # Unseen
    <3>1. firstHealthy'[v] = firstHealthy[v]
      BY <1>6, <2>1
    <3>2. PICK i \in 1..Len(report) :
            /\ report[i].version = v /\ report[i].state = "Healthy"
            /\ report[i].start = firstHealthy[v]
      BY <2>1 DEF HealthKept
    <3>3. i <= n /\ report'[i] = report[i]
      BY <1>4, <3>2 DEF Records
    <3> QED
      BY <1>5, <3>1, <3>2, <3>3
  <2>2. CASE firstHealthy[v] = Unseen
    <3>1. v = a.version /\ a.state = "Healthy" /\ firstHealthy'[v] = now
      BY <1>6, <2>2
    <3>2. CASE report'[n] = s
      BY <1>2, <1>5, <3>1, <3>2
    <3>3. CASE n <= Len(report) /\ report'[n] = report[n]
      BY <1>5, <1>9, <2>2, <3>1, <3>3 DEF HealthyStamped
    <3> QED
      BY <1>9, <3>1, <3>2, <3>3
  <2> QED
    BY <2>1, <2>2
<1> QED
  BY <1>7, <1>10, <1>11, <1>12, <1>13, <1>14

LEMMA NextIInv == IInv /\ [Next]_vars => IInv'
<1> SUFFICES ASSUME IInv, [Next]_vars PROVE IInv'
  OBVIOUS
<1> USE DEF IInv
<1>1. ASSUME NEW v \in Version, NEW s \in PublishedState, Publish(v, s)
      PROVE  IInv'
  <2>1. UNCHANGED <<now, report, polled, failed, firstHealthy, interrupted>>
    BY <1>1 DEF Publish
  <2>2. artifact' \in SUBSET Reported
    BY <1>1, StateAssumption DEF Publish, Reported
  <2>3. TypeOK'
    BY <2>1, <2>2 DEF TypeOK
  <2>4. WellFormed'
    BY <2>1 DEF WellFormed, Compact
  <2>5. LatestRecorded'
    BY <2>1 DEF LatestRecorded, LastStatus
  <2>6. FailureKept' /\ HealthyStamped' /\ HealthKept'
    BY <2>1 DEF FailureKept, HealthyStamped, HealthKept
  <2> QED
    BY <2>3, <2>4, <2>5, <2>6
<1>2. ASSUME NEW a \in artifact, Poll(a) \/ PollFails(a)
      PROVE  IInv'
  BY <1>2, RecordedIInv DEF Poll, PollFails
<1>3. ASSUME NEW a \in artifact, PollRefused(a)
      PROVE  IInv'
  <2>1. /\ UNCHANGED <<now, artifact, report, polled, failed, firstHealthy>>
        /\ interrupted' \in [Version -> Int]
    BY <1>3, BoundAssumption DEF PollRefused, ObserveInterruption, TypeOK
  <2>2. TypeOK'
    BY <2>1 DEF TypeOK
  <2>3. WellFormed'
    BY <2>1 DEF WellFormed, Compact
  <2>4. LatestRecorded' /\ FailureKept' /\ HealthyStamped' /\ HealthKept'
    BY <2>1 DEF LatestRecorded, LastStatus, FailureKept, HealthyStamped, HealthKept
  <2> QED
    BY <2>2, <2>3, <2>4
<1>4. CASE Forget
  <2>1. /\ report' = <<>> /\ Len(report') = 0 /\ polled' = {} /\ failed' = {}
        /\ firstHealthy' = [v \in Version |-> Unseen]
        /\ interrupted' = [v \in Version |-> Unseen]
        /\ UNCHANGED <<now, artifact>>
    BY <1>4, EmptySeq DEF Forget, ClearHistory
  <2>2. TypeOK'
    BY <2>1, EmptySeq DEF TypeOK, Unseen
  <2>3. WellFormed'
    BY <2>1 DEF WellFormed, Compact
  <2>4. LatestRecorded' /\ FailureKept' /\ HealthKept'
    BY <2>1 DEF LatestRecorded, FailureKept, HealthKept
  <2>5. HealthyStamped'
    BY <2>1, BoundAssumption DEF HealthyStamped, TypeOK, Unseen
  <2> QED
    BY <2>2, <2>3, <2>4, <2>5
<1>5. CASE Tick
  <2>1. /\ now' = now + 1 /\ now < MaxTime /\ now \in Nat
        /\ UNCHANGED <<artifact, report, polled, failed, firstHealthy, interrupted>>
    BY <1>5, BoundAssumption DEF Tick, TypeOK
  <2>2. TypeOK'
    BY <2>1, BoundAssumption DEF TypeOK
  <2>3. WellFormed'
    <3>1. \A i \in 1..Len(report) : report[i] \in DeploymentStatus(Version)
      BY ElementOfSeq DEF TypeOK
    <3>2. \A i \in 1..Len(report) : report[i].start <= now + 1
      BY <2>1, <3>1 DEF WellFormed, DeploymentStatus
    <3> QED
      BY <2>1, <3>2 DEF WellFormed, Compact
  <2>4. LatestRecorded' /\ FailureKept' /\ HealthKept'
    BY <2>1 DEF LatestRecorded, LastStatus, FailureKept, HealthKept
  <2>5. HealthyStamped'
    <3>1. \A v \in Version : firstHealthy[v] \in Int /\ firstHealthy[v] <= now
      BY DEF TypeOK, HealthyStamped
    <3>2. \A v \in Version : firstHealthy[v] <= now + 1
      BY <2>1, <3>1
    <3> QED
      BY <2>1, <3>2 DEF HealthyStamped
  <2> QED
    BY <2>2, <2>3, <2>4, <2>5
<1>6. CASE UNCHANGED vars
  <2>1. TypeOK'
    BY <1>6 DEF vars, TypeOK
  <2>2. WellFormed'
    BY <1>6 DEF vars, WellFormed, Compact
  <2>3. LatestRecorded' /\ FailureKept' /\ HealthyStamped' /\ HealthKept'
    BY <1>6 DEF vars, LatestRecorded, LastStatus, FailureKept, HealthyStamped, HealthKept
  <2> QED
    BY <2>1, <2>2, <2>3
<1> QED
  BY <1>1, <1>2, <1>3, <1>4, <1>5, <1>6 DEF Next

LEMMA Inductive == Spec => []IInv
BY InitIInv, NextIInv, PTL DEF Spec

-----------------------------------------------------------------------------
(***************************************************************************)
(* What follows from the invariant.                                        *)
(***************************************************************************)

LEMMA IInvFailureRemembered == IInv => FailureRemembered
<1> SUFFICES ASSUME IInv, NEW v \in failed PROVE Healthy(v) = 0
  BY DEF FailureRemembered
<1> DEFINE f == FirstIndex(report, v)
<1>1. Len(report) \in Nat
  BY LenProperties DEF IInv, TypeOK
<1>2. PICK i \in 1..Len(report) : report[i].version = v /\ Failing(report[i])
  BY DEF IInv, FailureKept
<1>3. Mentions(report, v)
  BY <1>2 DEF Mentions
<1>4. f \in 1..Len(report) /\ f <= i
  BY <1>1, <1>2, <1>3, FirstIndexIsFirst
<1>5. i \in Bad(report, f) /\ report[i].version = v
  BY <1>1, <1>2, <1>4 DEF Bad, Failing
<1> QED
  BY <1>5 DEF Healthy, VersionHealthyDuration

LEMMA IInvBakeNeverEarly == IInv => BakeNeverEarly
<1> SUFFICES ASSUME IInv, NEW v \in Version, Healthy(v) > 0
             PROVE  /\ v \notin failed
                    /\ firstHealthy[v] # Unseen
                    /\ Healthy(v) <= now - firstHealthy[v]
  BY DEF BakeNeverEarly
<1> DEFINE f == FirstIndex(report, v)
           u == Until(report, f, now)
<1>1. /\ Len(report) \in Nat /\ now \in Nat /\ firstHealthy[v] \in Int
      /\ \A i \in 1..Len(report) : report[i] \in DeploymentStatus(Version)
  BY LenProperties, ElementOfSeq, BoundAssumption DEF IInv, TypeOK
<1>2. v \notin failed
  BY IInvFailureRemembered DEF FailureRemembered
<1>3. /\ Mentions(report, v)
      /\ ~\E j \in Bad(report, f) : report[j].version = v
      /\ Healthy(v) = u - report[f].start
  BY DEF Healthy, VersionHealthyDuration
<1>4. f \in 1..Len(report) /\ report[f].version = v
  BY <1>1, <1>3, FirstIndexIsFirst
<1>5. report[f].state = "Healthy"
  BY <1>1, <1>3, <1>4 DEF Bad
<1>6. firstHealthy[v] # Unseen /\ firstHealthy[v] <= report[f].start
  BY <1>4, <1>5 DEF IInv, HealthyStamped
<1>7. u \in Int /\ u <= now
  <2>1. \A j \in f..Len(report) : report[j].start \in Int /\ report[j].start <= now
    BY <1>1, <1>4 DEF IInv, WellFormed, DeploymentStatus
  <2>2. \/ u = now
        \/ \E j \in f..Len(report) : report[j].state # "Healthy" /\ u = report[j].start
    BY <1>1, <1>4, UntilIsReached
  <2> QED
    BY <1>1, <2>1, <2>2
<1>8. report[f].start \in Int
  BY <1>1, <1>4 DEF DeploymentStatus
<1> QED
  BY <1>1, <1>2, <1>3, <1>6, <1>7, <1>8

\* Among healthy entries the first one of a version is that of its first poll.
LEMMA IInvExactWhenHealthy == IInv => ExactWhenHealthy
<1> SUFFICES ASSUME IInv, \A i \in 1..Len(report) : report[i].state = "Healthy",
                    NEW v \in Version, firstHealthy[v] # Unseen
             PROVE  Healthy(v) = now - firstHealthy[v]
  BY DEF ExactWhenHealthy
<1> DEFINE f == FirstIndex(report, v)
<1>1. /\ Len(report) \in Nat /\ firstHealthy[v] \in Int
      /\ \A i \in 1..Len(report) : report[i].start \in Int
  <2>1. /\ report \in Seq(DeploymentStatus(Version)) /\ Len(report) \in Nat
        /\ firstHealthy[v] \in Int
    BY LenProperties DEF IInv, TypeOK
  <2>2. \A i \in 1..Len(report) : report[i] \in DeploymentStatus(Version)
    BY <2>1, ElementOfSeq
  <2> QED
    BY <2>1, <2>2 DEF DeploymentStatus
<1>2. PICK i \in 1..Len(report) :
        /\ report[i].version = v /\ report[i].state = "Healthy"
        /\ report[i].start = firstHealthy[v]
  BY DEF IInv, HealthKept
<1>3. Mentions(report, v)
  BY <1>2 DEF Mentions
<1>4. f \in 1..Len(report) /\ report[f].version = v /\ f <= i
  BY <1>1, <1>2, <1>3, FirstIndexIsFirst
<1>5. firstHealthy[v] <= report[f].start
  BY <1>4 DEF IInv, HealthyStamped
<1>6. report[f].start <= report[i].start
  BY <1>2, <1>4 DEF IInv, WellFormed
<1>7. report[f].start = firstHealthy[v]
  BY <1>1, <1>2, <1>4, <1>5, <1>6
<1>8. Bad(report, f) = {}
  BY <1>1, <1>4 DEF Bad
<1> QED
  BY <1>3, <1>7, <1>8 DEF Healthy, VersionHealthyDuration, Until

\* A step that polls the same answer twice leaves the report alone.
LEMMA IInvQuietPoll ==
  IInv /\ [Next]_vars =>
    [\A a \in polled : polled' = polled => report' = report]_<<report, polled>>
<1> SUFFICES ASSUME IInv, [Next]_vars, NEW a \in polled, polled' = polled
             PROVE  report' = report
  OBVIOUS
<1>1. ASSUME NEW b \in artifact, Poll(b) \/ PollFails(b)
      PROVE  report' = report
  <2> DEFINE s == Stamped(b)
  <2>1. polled' = {b} /\ a = b /\ b.state \in Admitted
    BY <1>1 DEF Poll, PollFails, Observe
  <2>2. /\ report # <<>>
        /\ LastStatus(report).version = s.version
        /\ LastStatus(report).state = s.state
    BY <2>1 DEF IInv, LatestRecorded, Stamped
  <2>3. s \in DeploymentStatus(Version)
    BY <2>1, BoundAssumption DEF IInv, TypeOK, Reported, DeploymentStatus, Stamped
  <2>4. report \in Seq(DeploymentStatus(Version)) /\ Compact(report)
    BY DEF IInv, TypeOK, WellFormed
  <2>5. CASE Poll(b)
    BY <2>2, <2>3, <2>4, <2>5, AppendStatusRepeats DEF Poll
  <2>6. CASE PollFails(b)
    BY <2>2, <2>3, <2>4, <2>6, OverwrittenRepeats DEF PollFails
  <2> QED
    BY <1>1, <2>5, <2>6
<1>2. CASE Forget
  BY <1>2 DEF Forget, ClearHistory
<1> QED
  BY <1>1, <1>2 DEF Next, Publish, PollRefused, Tick, vars

-----------------------------------------------------------------------------
(***************************************************************************)
(* Theorems.                                                               *)
(***************************************************************************)

\* Whatever is published, the report is a sequence of statuses that the CRD
\* admits: what it refuses is in no saved report.
THEOREM TypeCorrect == Spec => []TypeOK
<1>1. IInv => TypeOK
  BY DEF IInv
<1> QED
  BY <1>1, Inductive, PTL

\* The report stays chronological, no pending entry survives its outcome, and the
\* last entry is the answer recorded last: also after polls that failed in part
\* and left in it what AppendStatus had written in place.
THEOREM ReportSound == Spec => [](WellFormed /\ LatestRecorded)
<1>1. IInv => WellFormed /\ LatestRecorded
  BY DEF IInv
<1> QED
  BY <1>1, Inductive, PTL

\* What the DeployWith check of Reconcile reads as the latest status is the one
\* that was recorded last, whether it was appended, merged or written in place.
THEOREM LatestStatusKept == Spec => []LatestRecorded
<1>1. WellFormed /\ LatestRecorded => LatestRecorded
  OBVIOUS
<1> QED
  BY <1>1, ReportSound, PTL

\* VersionHealthyDuration never credits a version with a failure on record:
\* neither compaction nor a partly failed poll removes one.
THEOREM FailureNeverForgotten == Spec => []FailureRemembered
BY Inductive, IInvFailureRemembered, PTL

\* VersionHealthyDuration never credits a version with more than the time since
\* a healthy answer was first recorded for it.
THEOREM NeverEarly == Spec => []BakeNeverEarly
BY Inductive, IInvBakeNeverEarly, PTL

\* As long as all that is reported is healthy, as everything that Reconcile
\* publishes is, VersionHealthyDuration credits a version with exactly the time
\* since it was first recorded: through later versions, rollbacks and failures
\* that the API server refused to record.
THEOREM ExactCredit == Spec => []ExactWhenHealthy
BY Inductive, IInvExactWhenHealthy, PTL

\* Recording an unchanged status does not change the report.
THEOREM PollsAreQuiet == Spec => QuietPoll
BY Inductive, IInvQuietPoll, PTL DEF Spec, QuietPoll

=============================================================================
