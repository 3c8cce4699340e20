-------------------------- MODULE DeployConditions ---------------------------
(***************************************************************************)
(* The decision of a reconcile: which deployments one deployment follows   *)
(* (DeployAfter) and which it waits for (DeployWith), as derived from the  *)
(* published configuration (internal/controller/propagation_controller.go, *)
(* pkg/repo/config/config.go), and the version it may propagate to         *)
(* (NextVersion in api/v1alpha1/propagation_types.go).  Operators only.    *)
(*                                                                         *)
(* A configuration is a sequence of environments, an environment the       *)
(* sequence of its waves, a wave a record of a bake time and a sequence of *)
(* deployment names.  Names of environments and release cadences, which no *)
(* code reads, are left out.                                               *)
(***************************************************************************)
EXTENDS StatusHistory

CONSTANTS
  NoVersion,   \* the "" that NextVersion returns when nothing is baked
  Latest       \* the tag "latest" (name.DefaultTag)

Names(wave) == {wave.deployments[k] : k \in 1..Len(wave.deployments)}

Positions(c) == UNION {{<<e, w>> : w \in 1..Len(c[e])} : e \in 1..Len(c)}

\* The loops visit environments, and the waves of each, in order.
Precedes(p, q) == p[1] < q[1] \/ (p[1] = q[1] /\ p[2] < q[2])

WaveAt(c, p) == c[p[1]][p[2]]

Deployments(c) == UNION {Names(WaveAt(c, p)) : p \in Positions(c)}

\* Where the loops first meet the deployment.
PositionOf(c, d) ==
  CHOOSE p \in Positions(c) :
    /\ d \in Names(WaveAt(c, p))
    /\ \A q \in Positions(c) : d \in Names(WaveAt(c, q)) => ~Precedes(q, p)

DeployAfter_FaultyWithinEnvironment(c, d) ==
  LET p == PositionOf(c, d)
  IN  IF p[2] = 1
      THEN [bakeTime |-> 0, deployments |-> <<>>]
      ELSE c[p[1]][p[2] - 1]

\* The wave visited just before, in the same or in an earlier environment; the
\* zero value of Wave for the very first one.
DeployAfter(c, d) ==
  LET earlier == {q \in Positions(c) : Precedes(q, PositionOf(c, d))}
  IN  IF earlier = {}
      THEN [bakeTime |-> 0, deployments |-> <<>>]
      ELSE WaveAt(c, CHOOSE p \in earlier : \A q \in earlier : ~Precedes(p, q))

DeployWith_FaultyEveryWave(c, d) ==
  UNION {Names(WaveAt(c, <<PositionOf(c, d)[1], w>>)) : w \in 1..Len(c[PositionOf(c, d)[1]])} \ {d}

\* For the first wave of an environment, the deployments of its later waves.
DeployWith(c, d) ==
  LET p == PositionOf(c, d)
  IN  IF p[2] = 1
      THEN UNION {Names(c[p[1]][w]) : w \in 2..Len(c[p[1]])}
      ELSE {}

DeploymentBakeTime(c, d) ==
  IF d \in Deployments(c) THEN WaveAt(c, PositionOf(c, d)).bakeTime ELSE 0

\* deployConditionsFromConfig.
DeployConditions(c, d) == [after |-> DeployAfter(c, d), with |-> DeployWith(c, d)]

-----------------------------------------------------------------------------
(***************************************************************************)
(* NextVersion.  after is a DeployAfter record; reports maps the names of  *)
(* the reported deployments to their histories.                            *)
(***************************************************************************)

Versions(h) == {h[i].version : i \in 1..Len(h)}

LastIndex(h, v) ==
  CHOOSE i \in 1..Len(h) :
    h[i].version = v /\ \A j \in (i + 1)..Len(h) : h[j].version # v

Baked_FaultyFirstOnly(after, reports, v, now) ==
  VersionHealthyDuration(reports[after.deployments[1]], v, now) >= after.bakeTime

\* No listed deployment with a report has had v healthy for less than BakeTime.
Baked(after, reports, v, now) ==
  \A d \in Names(after) \cap DOMAIN reports :
    VersionHealthyDuration(reports[d], v, now) >= after.bakeTime

\* The versions the first listed deployment has reported, and that are baked.
Candidates(after, reports, now) ==
  LET first == after.deployments[1]
  IN  IF first \in DOMAIN reports
      THEN {v \in Versions(reports[first]) : Baked(after, reports, v, now)}
      ELSE {}

\* The candidate that the first listed deployment reported most recently.
NextVersion(after, reports, now) ==
  LET first == after.deployments[1]
      cs    == Candidates(after, reports, now)
  IN  IF after.deployments = <<>> THEN Latest
      ELSE IF cs = {} THEN NoVersion
      ELSE CHOOSE v \in cs : \A w \in cs :
             LastIndex(reports[first], w) <= LastIndex(reports[first], v)

WaveCaughtUp_FaultyNoBake(with, bakeTime, reports, version, now) ==
  \A u \in with :
    /\ LastStatus(reports[u]).version = version
    /\ LastStatus(reports[u]).state = "Healthy"

\* Every deployment of "with" reports version, healthy, for its bake time.
WaveCaughtUp(with, bakeTime, reports, version, now) ==
  \A u \in with :
    /\ LastStatus(reports[u]).version = version
    /\ LastStatus(reports[u]).state = "Healthy"
    /\ VersionHealthyDuration(reports[u], version, now) >= bakeTime[u]

=============================================================================
