--------------------------- MODULE RolloutLiveness ---------------------------
(***************************************************************************)
(* Rollout once more, for what must eventually happen.  Calls fail and the *)
(* controller restarts any number of times, but only until some moment     *)
(* that the flag "stable" marks.  For the configurations that are not in   *)
(* Overlapping only the behaviours are explored in which no call fails and *)
(* nothing else happens while a reconcile runs.                            *)
(***************************************************************************)
EXTENDS Rollout

CONSTANT Overlapping

ASSUME OverlappingAssumption == Overlapping \subseteq Config

VARIABLE stable

liveVars == <<vars, stable>>

LiveInit == Init /\ stable = FALSE

Stabilise == stable' = TRUE /\ UNCHANGED vars

Quiet(d) == pc[d] = "idle"

OneAtATime ==
  \/ \E d \in Deployment : (\A u \in Deployment \ {d} : Quiet(u)) /\ Step(d)
  \/ /\ \A d \in Deployment : Quiet(d)
     /\ \/ Tick
        \/ \E d \in Deployment : PushManifest(d) \/ Apply(d)
        \/ \E c \in Config : PublishConfig(c)

LiveNext ==
  \/ config \in Overlapping /\ (Move \/ Tick) /\ UNCHANGED stable
  \/ config \in Overlapping /\ ~stable /\ (\E d \in Deployment : Abort(d)) /\ UNCHANGED stable
  \/ config \in Overlapping /\ (\E c \in Config : PublishConfig(c)) /\ UNCHANGED stable
  \/ config \notin Overlapping /\ stable /\ OneAtATime /\ UNCHANGED stable
  \/ Stabilise

\* Every reconcile is requeued, on success after the poll interval and on an
\* error with backoff, and its calls return; CI builds what it can build and
\* the agent applies it; time passes.
Fairness ==
  /\ \A d \in UNION {Named[c] : c \in Config} :
       /\ WF_vars(d \in Deployment /\ Step(d))
       /\ WF_vars(d \in Deployment /\ Apply(d))
       /\ WF_vars(d \in Deployment /\ PushManifest(d))
  /\ WF_vars(Tick)
  /\ WF_stable(Stabilise)

LiveSpec == LiveInit /\ [][LiveNext]_liveVars /\ Fairness

-----------------------------------------------------------------------------

\* Every version reaches every wave: when CI has built the last version and the
\* configuration stays as it is, every deployment that it names arrives at that
\* version and stays there.
Converges ==
  <>[](\A d \in Named[config] : deploy[d] = Newest[config] /\ running[d] = Newest[config])

=============================================================================
