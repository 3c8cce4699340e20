---------------------------- MODULE StatusHistory ----------------------------
(***************************************************************************)
(* What one Propagation remembers of another deployment: the sequence of   *)
(* statuses in a DeploymentStatusesReport (api/v1alpha1/propagation_types  *)
(* .go), how a newly observed status is recorded in it, and for how long   *)
(* it says that a version has been healthy.  Operators only; time is an    *)
(* integer and "now" a parameter.                                          *)
(*                                                                         *)
(* An operator named X_Faulty... is a mistake that X could contain.  It    *)
(* is used nowhere: it shows which property would notice the mistake.      *)
(***************************************************************************)
EXTENDS Integers, Sequences

\* The three constants of type HealthState.
HealthState == {"Healthy", "Pending", "Unhealthy"}

\* The states that the API server admits in a saved status.  The marker of the
\* field names "Degraded" where the constant is "Unhealthy".
Admitted == {"Healthy", "Pending", "Degraded"}

\* A saved DeploymentStatus about a version of the set V.
DeploymentStatus(V) == [version : V, state : Admitted, start : Int]

LastStatus(h) == h[Len(h)]

\* No pending entry is followed by one of the same version.
Compact(h) ==
  \A i \in 1..(Len(h) - 1) :
    h[i].version = h[i + 1].version => h[i].state # "Pending"

-----------------------------------------------------------------------------
(***************************************************************************)
(* AppendStatus.                                                           *)
(***************************************************************************)

\* What becomes of the last entry when s is written over it.
Updated(last, s) ==
  [s EXCEPT !.start = IF s.state = "Healthy" THEN s.start ELSE last.start]

\* s is written over the last entry, and not appended: AppendStatus does so in
\* the array that the saved report and its copy share.
Overwrites(h, s) ==
  h # <<>> /\ LastStatus(h).version = s.version /\ LastStatus(h).state = "Pending"

Overwritten(h, s) == [h EXCEPT ![Len(h)] = Updated(LastStatus(h), s)]

Recorded_FaultyOverwrite(h, s) ==
  IF h # <<>> /\ LastStatus(h).version = s.version
  THEN Overwritten(h, s)
  ELSE Append(h, s)

Recorded_FaultyKeepStart(h, s) ==
  IF Overwrites(h, s)
  THEN [h EXCEPT ![Len(h)] = [s EXCEPT !.start = LastStatus(h).start]]
  ELSE Append(h, s)

Recorded_FaultyAlwaysAppend(h, s) == Append(h, s)

\* A pending status of the same version is updated in place, and restarts its
\* clock when it becomes healthy; any other status is appended.
Recorded(h, s) == IF Overwrites(h, s) THEN Overwritten(h, s) ELSE Append(h, s)

Compacted_FaultyNever(h, s) == h

Compacted_FaultyVersionOnly(h, s) ==
  IF Len(h) >= 2 /\ h[Len(h) - 1].version = s.version
  THEN SubSeq(h, 1, Len(h) - 1)
  ELSE h

\* The last status is dropped when the one before it already says the same.
Compacted(h, s) ==
  IF /\ Len(h) >= 2
     /\ h[Len(h) - 1].version = s.version
     /\ h[Len(h) - 1].state = s.state
  THEN SubSeq(h, 1, Len(h) - 1)
  ELSE h

AppendStatus(h, s) == Compacted(Recorded(h, s), s)

-----------------------------------------------------------------------------
(***************************************************************************)
(* VersionHealthyDuration.                                                 *)
(***************************************************************************)

Mentions(h, v) == \E i \in 1..Len(h) : h[i].version = v

\* The first status about v: the loop returns within that iteration.
FirstIndex(h, v) ==
  CHOOSE i \in 1..Len(h) :
    h[i].version = v /\ \A j \in 1..(i - 1) : h[j].version # v

\* The statuses from i on that are not healthy.
Bad(h, i) == {j \in i..Len(h) : h[j].state # "Healthy"}

\* Each bad status of another version overwrites "until": the last one wins.
Until(h, i, now) ==
  IF Bad(h, i) = {}
  THEN now
  ELSE h[CHOOSE j \in Bad(h, i) : \A k \in Bad(h, i) : k <= j].start

VersionHealthyDuration_FaultyLastIndex(h, v, now) ==
  LET i == CHOOSE k \in 1..Len(h) :
             h[k].version = v /\ \A j \in (k + 1)..Len(h) : h[j].version # v
  IN  IF ~Mentions(h, v) \/ \E j \in Bad(h, i) : h[j].version = v
      THEN 0
      ELSE Until(h, i, now) - h[i].start

VersionHealthyDuration(h, v, now) ==
  LET i == FirstIndex(h, v)
  IN  IF ~Mentions(h, v) \/ \E j \in Bad(h, i) : h[j].version = v
      THEN 0
      ELSE Until(h, i, now) - h[i].start

=============================================================================
