--------------------------- MODULE RolloutHistory ----------------------------
(***************************************************************************)
(* Rollout with a history variable: since when each deployment has run     *)
(* each version it ever ran.  The properties here compare what reconciles  *)
(* believe and decide with what really happened.                           *)
(***************************************************************************)
EXTENDS Rollout

Never == 1      \* a stamp for what has not happened

VARIABLE ranFrom

historyVars == <<vars, ranFrom>>

HistoryInit ==
  /\ Init
  /\ ranFrom = [d \in Deployment |-> [v \in Version |-> Never]]

\* A version that runs for the first time is stamped with "now".
Remember ==
  ranFrom' = [d \in Deployment |-> [v \in Version |->
    IF ranFrom[d][v] = Never /\ running'[d] = v THEN 0 ELSE ranFrom[d][v]]]

\* What has run grows older with everything else.
Recede ==
  ranFrom' = [d \in Deployment |-> [v \in Version |->
    IF ranFrom[d][v] = Never THEN Never ELSE Older(ranFrom[d][v])]]

HistoryNext ==
  \/ Move /\ Remember
  \/ (\E d \in Deployment : Abort(d)) /\ Remember
  \/ (\E c \in Config : PublishConfig(c)) /\ UNCHANGED ranFrom
  \/ Tick /\ Recede

HistorySpec == HistoryInit /\ [][HistoryNext]_historyVars

-----------------------------------------------------------------------------
(***************************************************************************)
(* Properties.                                                             *)
(***************************************************************************)

\* Deployment u has run version v for at least t.
HasRun(u, v, t) == ranFrom[u][v] # Never /\ -ranFrom[u][v] >= t

\* What a deployment believes about another is true: no report, saved or still
\* being assembled, credits a version that the other deployment never ran, or
\* for longer than since it began to run there - through the version object,
\* the status artifact, a fetch, any number of aborted reconciles and changes of
\* the configuration that drop reports and take old ones up again.
ReportsTruthful ==
  \A d \in Deployment :
    /\ \A u \in DOMAIN reports[d] : \A i \in 1..Len(reports[d][u]) :
         HasRun(u, reports[d][u][i].version, -reports[d][u][i].start)
    /\ \A u \in DOMAIN fetched[d] : \A i \in 1..Len(fetched[d][u]) :
         HasRun(u, fetched[d][u][i].version, -fetched[d][u][i].start)

\* "Propagation will proceed only after all listed deployments report a healthy
\* version for the specified amount of time" (types.go:71): at the moment a new
\* version is published for d, every deployment of the preceding wave really
\* has run it for the bake time of that wave, both taken from the configuration
\* this reconcile read, whatever an earlier one was recorded under.
BakedEverywhere ==
  [][\A d \in Deployment :
       deploy'[d] # deploy[d] =>
         \A u \in Names(After(d)) :
           HasRun(u, deploy'[d], After(d).bakeTime)]_historyVars

\* u belongs to an environment of which d is in the first wave and u is not.
FollowsWithin(c, u, d) ==
  /\ Places[c][d][1] = Places[c][u][1]
  /\ Places[c][d][2] = 1
  /\ Places[c][u][2] > 1

\* "Propagation will not proceed until all the listed deployments have the same
\* version as the current deployment" (types.go:89): a first wave is given a
\* new version only when every later wave of its environment has run, for its
\* bake time, the version the reconcile found running.
FirstWaveWaits ==
  [][\A d \in Deployment :
       deploy'[d] # deploy[d] =>
         \A u \in Named[basis[d]] :
           FollowsWithin(basis[d], u, d) => HasRun(u, read[d], BakeTimes[basis[d]][u])]_historyVars

\* As long as the configuration stays, no deployment is sent back to an older
\* version by its own controller: what once justified a version is saved before
\* it is acted upon, and survives aborted reconciles and restarts.  (A longer
\* bake time, or another order, may well send it back.)
NeverBack == [][edits' = 0 => \A d \in Deployment : deploy'[d] >= deploy[d]]_historyVars

=============================================================================
