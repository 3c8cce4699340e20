---------------------------- MODULE RolloutProofs ----------------------------
(***************************************************************************)
(* The rollout, for any configurations, deployments, bake times, versions, *)
(* replacements of the configuration, failures and restarts.               *)
(***************************************************************************)
EXTENDS RolloutHistory, DeployConditionsProofs

\* TypeOK in three parts, with what the proofs need in addition.  What the
\* environment and the API server hold:
WorldOK ==
  /\ config \in Config /\ edits \in 0..MaxEdits[config]
  /\ manifest \in [Deployment -> Version]
  /\ deploy \in [Deployment -> Version]
  /\ running \in [Deployment -> Version \cup {Unset}]
  /\ status \in [Deployment -> Version \cup {Unset}]
  /\ recorded \in [Deployment -> Version \cup {Unset}]

\* Where the reconciles stand: each goes by a configuration that names its
\* deployment.
LocalsOK ==
  /\ pc \in [Deployment -> Phase]
  /\ basis \in [Deployment -> Family(config) \cup {NoConfig}]
  /\ read \in [Deployment -> Version \cup {Unset}]
  /\ choice \in [Deployment -> Version \cup {NoVersion, Latest}]
  /\ \A d \in Deployment :
       /\ basis[d] = NoConfig <=> pc[d] = "idle"
       /\ pc[d] # "idle" => d \in Named[basis[d]] /\ read[d] \in Version
       /\ pc[d] = "propagate" => choice[d] # NoVersion

\* What each deployment knows of others.
ReportsOK ==
  /\ reports = [d \in Deployment |-> reports[d]]
  /\ fetched = [d \in Deployment |-> fetched[d]]
  /\ \A d \in Deployment :
       /\ DOMAIN reports[d] \in {{}} \cup {RequiredBy(c, d) : c \in Naming(d)}
       /\ \A u \in DOMAIN reports[d] : History(reports[d][u])
       /\ DOMAIN fetched[d] \subseteq (IF pc[d] = "idle" THEN {} ELSE Required(d))
       /\ \A u \in DOMAIN fetched[d] : History(fetched[d][u]) /\ fetched[d][u] # <<>>
       /\ pc[d] = "propagate" => DOMAIN fetched[d] = Required(d)

TInv == WorldOK /\ LocalsOK /\ ReportsOK

-----------------------------------------------------------------------------
(***************************************************************************)
(* Configurations.                                                         *)
(***************************************************************************)

\* The configurations of a family are about the same deployments.
LEMMA Families ==
  ASSUME NEW c \in Config
  PROVE  /\ c \in Family(c) /\ Family(c) \subseteq Config
         /\ \A x \in Family(c) :
              /\ Family(x) = Family(c) /\ Everyone[x] = Everyone[c]
              /\ Newest[x] = Newest[c] /\ MaxEdits[x] = MaxEdits[c]
              /\ Named[x] \subseteq Everyone[c]
<1>1. c \in Family(c) /\ Family(c) \subseteq Config
  BY ReplacementAssumption DEF Family
<1>2. ASSUME NEW x \in Family(c)
      PROVE  Family(x) = Family(c) /\ Newest[x] = Newest[c] /\ MaxEdits[x] = MaxEdits[c]
  BY ReplacementAssumption
<1>3. ASSUME NEW x \in Family(c)
      PROVE  Everyone[x] = Everyone[c] /\ Named[x] \subseteq Everyone[c]
  BY <1>1, <1>2 DEF Everyone
<1> QED
  BY <1>1, <1>2, <1>3

\* Replacing the configuration leaves the family, and everybody in it.
LEMMA FamilyStays ==
  ASSUME config \in Config, config' = config \/ config' \in Replacement[config]
  PROVE  /\ config' \in Config /\ Family(config') = Family(config)
         /\ Deployment' = Deployment
         /\ Newest[config'] = Newest[config] /\ MaxEdits[config'] = MaxEdits[config]
         /\ \A d : Naming(d)' = Naming(d)
<1>1. config' \in Family(config)
  BY DEF Family
<1> QED
  BY <1>1, Families DEF Deployment, Naming

\* What a deployment of a configuration reads the status of.
LEMMA RequiredInFamily ==
  ASSUME NEW c \in Config, NEW d \in Named[c]
  PROVE  /\ Content[c] \in Seq(Seq(Waves(0..Horizon)))
         /\ d \in Deployments(Content[c]) /\ Named[c] = Deployments(Content[c])
         /\ Conditions[c][d].after = DeployAfter(Content[c], d)
         /\ Conditions[c][d].with = DeployWith(Content[c], d)
         /\ Conditions[c][d].after \in Waves(0..Horizon)
         /\ RequiredBy(c, d) \subseteq Named[c]
<1>1. Content[c] \in Seq(Seq(Waves(0..Horizon)))
  BY ContentAssumption DEF Waves
<1>2. Named[c] = Deployments(Content[c])
  BY DEF Named
<1>3. /\ Conditions[c][d].after = DeployAfter(Content[c], d)
      /\ Conditions[c][d].with = DeployWith(Content[c], d)
  BY DEF Conditions, DeployConditions
<1>4. /\ Names(DeployAfter(Content[c], d)) \subseteq Deployments(Content[c])
      /\ DeployWith(Content[c], d) \subseteq Deployments(Content[c])
      /\ DeployAfter(Content[c], d) \in Waves((0..Horizon) \cup {0})
  BY <1>1, <1>2, RequiredAreNamed
<1>5. (0..Horizon) \cup {0} = 0..Horizon
  BY HorizonAssumption
<1>6. /\ Names(DeployAfter(Content[c], d)) \subseteq Named[c]
      /\ DeployWith(Content[c], d) \subseteq Named[c]
  BY <1>2, <1>4
<1> QED
  BY <1>1, <1>2, <1>3, <1>4, <1>5, <1>6 DEF RequiredBy

\* A version is a positive number.
LEMMA VersionsAreNumbers ==
  /\ \A v \in Version : v \in Nat /\ v >= 1
  /\ Unset \notin Version
  /\ \A c \in Config : \A v \in 1..Newest[c] : v \in Version
  /\ \A c \in Config : 1 \in Version /\ Newest[c] \in Nat /\ Newest[c] >= 1
BY VersionAssumption DEF Version, Unset

\* What the entries of a history are.
LEMMA HistoryEntries ==
  ASSUME NEW h, History(h)
  PROVE  /\ h \in Seq(Healthy(Version, Stamp)) /\ Len(h) \in Nat
         /\ \A i \in 1..Len(h) :
              /\ h[i] \in Healthy(Version, Stamp)
              /\ h[i].version \in Version /\ h[i].state = "Healthy"
              /\ h[i].start \in Int /\ -Horizon <= h[i].start /\ h[i].start <= 0
<1>1. h \in Seq(Healthy(Version, Stamp))
  BY DEF History, Healthy
<1>2. Len(h) \in Nat /\ \A i \in 1..Len(h) : h[i] \in Healthy(Version, Stamp)
  BY <1>1, LenProperties, ElementOfSeq
<1> QED
  BY <1>1, <1>2, HorizonAssumption DEF Healthy, Stamp

-----------------------------------------------------------------------------
(***************************************************************************)
(* Types.                                                                  *)
(***************************************************************************)

LEMMA InitTInv == Init => TInv
<1> SUFFICES ASSUME Init PROVE TInv
  OBVIOUS
<1> USE DEF Init
<1>1. config \in Config /\ 1 \in Version
  BY VersionsAreNumbers
<1>2. 0 \in 0..MaxEdits[config]
  BY <1>1, ReplacementAssumption
<1>3. WorldOK
  BY <1>1, <1>2 DEF WorldOK
<1>4. LocalsOK
  BY <1>1 DEF LocalsOK, Phase
<1>5. ReportsOK
  <2>1. \A d \in Deployment : DOMAIN reports[d] = {} /\ DOMAIN fetched[d] = {} /\ pc[d] = "idle"
    OBVIOUS
  <2>2. reports = [d \in Deployment |-> reports[d]] /\ fetched = [d \in Deployment |-> fetched[d]]
    OBVIOUS
  <2> QED
    BY <2>1, <2>2 DEF ReportsOK
<1> QED
  BY <1>3, <1>4, <1>5 DEF TInv

\* The version a reconcile propagates is one that CI has built.
LEMMA ChosenIsBuilt ==
  ASSUME WorldOK, LocalsOK, NEW d \in Deployment, Propagate(d)
  PROVE  /\ Chosen(d) \in Version
         /\ choice[d] # NoVersion
         /\ choice[d] = Latest \/ choice[d] \in Version
<1>1. choice[d] # NoVersion /\ choice[d] \in Version \cup {Latest}
  BY DEF Propagate, LocalsOK
<1> QED
  BY <1>1 DEF Chosen, WorldOK

\* Every step keeps what the environment and the API server hold well typed.
LEMMA WorldStep ==
  ASSUME WorldOK, LocalsOK, [Next]_vars
  PROVE  /\ WorldOK' /\ Deployment' = Deployment
         /\ config' = config \/ config' \in Replacement[config]
<1> USE DEF WorldOK, object, world
<1>1. ASSUME NEW c \in Config, PublishConfig(c)
      PROVE  /\ WorldOK' /\ Deployment' = Deployment
             /\ config' = config \/ config' \in Replacement[config]
  <2>1. config' \in Replacement[config] /\ Deployment' = Deployment /\ config' \in Config
    BY <1>1, FamilyStays DEF PublishConfig
  <2>2. edits' \in 0..MaxEdits[config]
    BY <1>1, ReplacementAssumption DEF PublishConfig
  <2> QED
    BY <1>1, <2>1, <2>2, FamilyStays DEF PublishConfig
<1>2. ASSUME config' = config PROVE Deployment' = Deployment /\ MaxEdits[config'] = MaxEdits[config]
  BY <1>2 DEF Deployment
<1>3. ASSUME NEW d \in Deployment, PushManifest(d)
      PROVE  WorldOK' /\ config' = config
  <2>1. manifest[d] + 1 \in Version
    <3>1. manifest[d] \in Nat /\ manifest[d] + 1 \in 1..Newest[config]
      BY <1>3, VersionsAreNumbers DEF PushManifest
    <3> QED
      BY <3>1, VersionsAreNumbers
  <2> QED
    BY <1>2, <1>3, <2>1 DEF PushManifest
<1>4. ASSUME NEW d \in Deployment, Apply(d) PROVE WorldOK' /\ config' = config
  BY <1>2, <1>4 DEF Apply
<1>5. CASE Tick
  BY <1>2, <1>5 DEF Tick
<1>6. ASSUME NEW d \in Deployment,
             \/ Begin(d) \/ SaveReports(d) \/ ManifestMissing(d) \/ Abort(d)
             \/ \E u \in Deployment : FetchStatus(d, u) \/ StatusMissing(d, u)
      PROVE  WorldOK' /\ config' = config
  BY <1>2, <1>6 DEF Begin, SaveReports, ManifestMissing, Abort, FetchStatus, StatusMissing
<1>7. ASSUME NEW d \in Deployment, PublishStatus(d) \/ SaveStatus(d)
      PROVE  WorldOK' /\ config' = config
  <2>1. read[d] \in Version \cup {Unset}
    BY DEF LocalsOK
  <2> QED
    BY <1>2, <1>7, <2>1 DEF PublishStatus, SaveStatus
<1>8. ASSUME NEW d \in Deployment, Propagate(d) PROVE WorldOK' /\ config' = config
  <2>1. Chosen(d) \in Version
    BY <1>8, ChosenIsBuilt
  <2> QED
    BY <1>2, <1>8, <2>1 DEF Propagate
<1>9. CASE UNCHANGED vars
  BY <1>2, <1>9 DEF vars
<1> QED
  BY <1>1, <1>2, <1>3, <1>4, <1>5, <1>6, <1>7, <1>8, <1>9 DEF Next, Move, Step

\* What a decision may be.
LEMMA DecisionTyped ==
  ASSUME WorldOK, LocalsOK, ReportsOK, NEW d \in Deployment, pc[d] = "fetch",
         DOMAIN fetched[d] = Required(d)
  PROVE  Decision(d) \in Version \cup {NoVersion, Latest}
<1> DEFINE after == After(d)
           first == after.deployments[1]
<1>1. basis[d] \in Config /\ d \in Named[basis[d]]
  BY Families DEF LocalsOK, WorldOK
<1>2. CASE after.deployments = <<>>
  BY <1>2 DEF Decision, NextVersion
<1>3. CASE after.deployments # <<>>
  <2>1. after \in Waves(0..Horizon)
    BY <1>1, RequiredInFamily DEF After
  <2>2. first \in Required(d)
    BY <1>3, <2>1, NamesOfList DEF Required, RequiredBy, After
  <2>3. first \in DOMAIN fetched[d] /\ History(fetched[d][first])
    BY <2>2 DEF ReportsOK
  <2>4. /\ Len(fetched[d][first]) \in Nat
        /\ Versions(fetched[d][first]) \subseteq Version
    BY <2>3, HistoryEntries DEF Versions
  <2>5. Candidates(after, fetched[d], 0) \subseteq Version
    BY <2>3, <2>4 DEF Candidates
  <2>6. NextVersion(after, fetched[d], 0) \in Version \cup {NoVersion}
    BY <1>3, <2>4, <2>5, NextVersionIs
  <2> QED
    BY <2>6 DEF Decision
<1> QED
  BY <1>2, <1>3

\* Every step keeps the reconciles where they can be.
LEMMA LocalsStep ==
  ASSUME WorldOK, LocalsOK, ReportsOK, [Next]_vars
  PROVE  LocalsOK'
<1>1. Deployment' = Deployment /\ Family(config') = Family(config)
  BY WorldStep, FamilyStays DEF WorldOK
<1> USE <1>1 DEF LocalsOK, object, world
<1>2. ASSUME UNCHANGED <<pc, basis, read, choice>> PROVE LocalsOK'
  BY <1>2
<1>3. ASSUME NEW d \in Deployment, Return(d) PROVE LocalsOK'
  BY <1>3 DEF Return, Phase
<1>4. ASSUME NEW d \in Deployment, Begin(d) PROVE LocalsOK'
  <2>1. /\ config \in Family(config) /\ config # NoConfig
        /\ running[d] \in Version
    BY <1>4, Families, ReplacementAssumption DEF WorldOK, Begin
  <2> QED
    BY <1>4, <2>1 DEF Begin, Goto, Phase
<1>5. ASSUME NEW d \in Deployment, PublishStatus(d) \/ SaveStatus(d) PROVE LocalsOK'
  BY <1>5 DEF PublishStatus, SaveStatus, Goto, Phase
<1>6. ASSUME NEW d \in Deployment, NEW u \in Deployment, FetchStatus(d, u) PROVE LocalsOK'
  BY <1>2, <1>6 DEF FetchStatus
<1>7. ASSUME NEW d \in Deployment,
             \/ \E u \in Deployment : StatusMissing(d, u)
             \/ Propagate(d) \/ ManifestMissing(d) \/ Abort(d)
      PROVE  LocalsOK'
  BY <1>3, <1>7 DEF StatusMissing, Propagate, ManifestMissing, Abort
<1>8. ASSUME NEW d \in Deployment, SaveReports(d) PROVE LocalsOK'
  <2>1. Decision(d) \in Version \cup {NoVersion, Latest} /\ pc[d] = "fetch"
    BY <1>8, DecisionTyped DEF SaveReports
  <2>2. CASE Decision(d) = NoVersion
    BY <1>3, <1>8, <2>2 DEF SaveReports
  <2>3. CASE Decision(d) # NoVersion
    <3>1. /\ choice' = [choice EXCEPT ![d] = Decision(d)]
          /\ pc' = [pc EXCEPT ![d] = "propagate"]
          /\ UNCHANGED <<basis, read>>
      BY <1>8, <2>3 DEF SaveReports, Goto
    <3> QED
      BY <2>1, <2>3, <3>1 DEF Phase
  <2> QED
    BY <2>2, <2>3
<1>9. ASSUME NEW d \in Deployment, PushManifest(d) \/ Apply(d) PROVE LocalsOK'
  BY <1>2, <1>9 DEF PushManifest, Apply, locals
<1>10. CASE Tick \/ (\E c \in Config : PublishConfig(c)) \/ UNCHANGED vars
  BY <1>2, <1>10 DEF Tick, PublishConfig, locals, vars
<1> QED
  BY <1>4, <1>5, <1>6, <1>7, <1>8, <1>9, <1>10 DEF Next, Move, Step

-----------------------------------------------------------------------------
(***************************************************************************)
(* Where reports come from.                                                *)
(***************************************************************************)

Nothing == [u \in {} |-> <<>>]

\* Deployment d takes up what u reports.
Learns(d, u) ==
  /\ pc[d] = "fetch" /\ pc' = pc /\ basis' = basis
  /\ u \in Required(d) \ DOMAIN fetched[d] /\ u \in Deployment /\ status[u] # Unset
  /\ fetched'[d] = [x \in DOMAIN fetched[d] \cup {u} |->
       IF x = u THEN AppendStatus(Report(d, u), StatusOf(status[u])) ELSE fetched[d][x]]

\* A step other than a Tick leaves what d knows alone, forgets what d is
\* assembling, saves it, or takes up one more report.
Knows(d) ==
  /\ \/ reports'[d] = reports[d]
     \/ /\ pc[d] = "fetch" /\ DOMAIN fetched[d] = Required(d)
        /\ reports'[d] = fetched[d]
  /\ \/ fetched'[d] = fetched[d] /\ pc'[d] = pc[d] /\ basis'[d] = basis[d]
     \/ /\ fetched'[d] = fetched[d] /\ DOMAIN fetched[d] = {}
        /\ pc[d] = "idle" /\ pc'[d] \in {"publish", "fetch"}
     \/ /\ fetched'[d] = fetched[d] /\ basis'[d] = basis[d]
        /\ \/ pc[d] \in {"publish", "save"} /\ pc'[d] \in {"save", "fetch"}
           \/ /\ pc[d] = "fetch" /\ pc'[d] = "propagate"
              /\ DOMAIN fetched[d] = Required(d)
     \/ fetched'[d] = Nothing /\ pc'[d] = "idle"
     \/ \E u \in Deployment : Learns(d, u)

\* Every step that takes no time.
Untimed ==
  \/ Move
  \/ \E c \in Config : PublishConfig(c)
  \/ \E d \in Deployment : Abort(d)
  \/ UNCHANGED vars

LEMMA UntimedReports ==
  ASSUME TInv, Untimed
  PROVE  /\ reports' = [d \in Deployment |-> reports'[d]]
         /\ fetched' = [d \in Deployment |-> fetched'[d]]
         /\ \A d \in Deployment : Knows(d)
<1> DEFINE Goal ==
      /\ reports' = [d \in Deployment |-> reports'[d]]
      /\ fetched' = [d \in Deployment |-> fetched'[d]]
      /\ \A d \in Deployment : Knows(d)
<1>1. /\ reports = [d \in Deployment |-> reports[d]]
      /\ fetched = [d \in Deployment |-> fetched[d]]
      /\ pc \in [Deployment -> Phase]
      /\ basis \in [Deployment -> Family(config) \cup {NoConfig}]
      /\ \A d \in Deployment : pc[d] = "idle" => DOMAIN fetched[d] = {}
  BY DEF TInv, ReportsOK, LocalsOK
<1> USE DEF object, world
<1>2. ASSUME UNCHANGED <<reports, fetched, pc, basis>> PROVE Goal
  BY <1>1, <1>2 DEF Knows
<1>3. ASSUME NEW d \in Deployment, Return(d),
             \/ reports' = reports
             \/ /\ pc[d] = "fetch" /\ DOMAIN fetched[d] = Required(d)
                /\ reports' = [reports EXCEPT ![d] = fetched[d]]
      PROVE  Goal
  <2>1. /\ fetched' = [fetched EXCEPT ![d] = Nothing]
        /\ pc' = [pc EXCEPT ![d] = "idle"]
        /\ basis' = [basis EXCEPT ![d] = NoConfig]
    BY <1>3 DEF Return, Nothing
  <2>2. Knows(d)
    BY <1>1, <1>3, <2>1 DEF Knows
  <2>3. \A e \in Deployment \ {d} : Knows(e)
    BY <1>1, <1>3, <2>1 DEF Knows
  <2> QED
    BY <1>1, <1>3, <2>1, <2>2, <2>3
<1>4. ASSUME NEW d \in Deployment, Begin(d) PROVE Goal
  <2>1. /\ reports' = reports /\ fetched' = fetched
        /\ pc[d] = "idle" /\ pc'[d] \in {"publish", "fetch"}
        /\ \A e \in Deployment \ {d} : pc'[e] = pc[e] /\ basis'[e] = basis[e]
    BY <1>1, <1>4 DEF Begin, Goto
  <2> QED
    BY <1>1, <2>1 DEF Knows
<1>5. ASSUME NEW d \in Deployment, PublishStatus(d) \/ SaveStatus(d) PROVE Goal
  <2>1. /\ reports' = reports /\ fetched' = fetched /\ basis' = basis
        /\ pc[d] \in {"publish", "save"} /\ pc'[d] \in {"save", "fetch"}
        /\ \A e \in Deployment \ {d} : pc'[e] = pc[e]
    BY <1>1, <1>5 DEF PublishStatus, SaveStatus, Goto
  <2> QED
    BY <1>1, <2>1 DEF Knows
<1>6. ASSUME NEW d \in Deployment, NEW u \in Deployment, FetchStatus(d, u) PROVE Goal
  <2>1. /\ reports' = reports /\ pc' = pc /\ basis' = basis
        /\ fetched' = [fetched EXCEPT ![d] = [x \in DOMAIN fetched[d] \cup {u} |->
             IF x = u THEN AppendStatus(Report(d, u), StatusOf(status[u])) ELSE fetched[d][x]]]
    BY <1>1, <1>6 DEF FetchStatus
  <2>2. Learns(d, u)
    BY <1>1, <1>6, <2>1 DEF FetchStatus, Learns
  <2>3. \A e \in Deployment \ {d} : Knows(e)
    BY <1>1, <2>1 DEF Knows
  <2>4. Knows(d)
    BY <2>1, <2>2 DEF Knows
  <2> QED
    BY <1>1, <2>1, <2>3, <2>4
<1>7. ASSUME NEW d \in Deployment,
             \/ \E u \in Deployment : StatusMissing(d, u)
             \/ Propagate(d) \/ ManifestMissing(d) \/ Abort(d)
      PROVE  Goal
  BY <1>3, <1>7 DEF StatusMissing, Propagate, ManifestMissing, Abort
<1>8. ASSUME NEW d \in Deployment, SaveReports(d) PROVE Goal
  <2>1. CASE Decision(d) = NoVersion
    BY <1>3, <1>8, <2>1 DEF SaveReports
  <2>2. CASE Decision(d) # NoVersion
    <3>1. /\ reports' = [reports EXCEPT ![d] = fetched[d]] /\ fetched' = fetched
          /\ pc[d] = "fetch" /\ DOMAIN fetched[d] = Required(d)
          /\ pc' = [pc EXCEPT ![d] = "propagate"] /\ basis' = basis
      BY <1>8, <2>2 DEF SaveReports, Goto
    <3>2. Knows(d)
      BY <1>1, <3>1 DEF Knows
    <3>3. \A e \in Deployment \ {d} : Knows(e)
      BY <1>1, <3>1 DEF Knows
    <3> QED
      BY <1>1, <3>1, <3>2, <3>3
  <2> QED
    BY <2>1, <2>2
<1>9. ASSUME NEW d \in Deployment, PushManifest(d) \/ Apply(d) PROVE Goal
  BY <1>2, <1>9 DEF PushManifest, Apply, locals
<1>10. CASE (\E c \in Config : PublishConfig(c)) \/ UNCHANGED vars
  BY <1>2, <1>10 DEF PublishConfig, locals, vars
<1> QED
  BY <1>4, <1>5, <1>6, <1>7, <1>8, <1>9, <1>10 DEF Untimed, Move, Step

LEMMA HowReportsChange ==
  ASSUME TInv, [Next]_vars
  PROVE  /\ reports' = [d \in Deployment |-> reports'[d]]
         /\ fetched' = [d \in Deployment |-> fetched'[d]]
         /\ \/ Tick
            \/ \A d \in Deployment : Knows(d)
<1>1. CASE Tick
  BY <1>1 DEF Tick, AgedReports
<1> QED
  BY <1>1, UntimedReports DEF Next, Untimed

\* A history grows older entry by entry.
LEMMA AgedHistory ==
  ASSUME NEW h, History(h)
  PROVE  /\ History(Aged(h)) /\ Len(Aged(h)) = Len(h)
         /\ h # <<>> => Aged(h) # <<>>
         /\ \A i \in 1..Len(h) :
              /\ Aged(h)[i].version = h[i].version /\ Aged(h)[i].state = h[i].state
              /\ Aged(h)[i].start = Older(h[i].start)
              /\ Older(h[i].start) <= h[i].start
<1> DEFINE S == Healthy(Version, Stamp)
           A(i) == [h[i] EXCEPT !.start = Older(h[i].start)]
<1>1. Len(h) \in Nat /\ h \in Seq(S)
  BY HistoryEntries
<1>2. ASSUME NEW i \in 1..Len(h)
      PROVE  /\ A(i) \in S
             /\ A(i).version = h[i].version /\ A(i).state = h[i].state
             /\ A(i).start = Older(h[i].start)
             /\ Older(h[i].start) <= h[i].start
  <2>1. /\ h[i] \in S /\ h[i].start \in Int /\ -Horizon <= h[i].start /\ h[i].start <= 0
    BY HistoryEntries
  <2>2. Older(h[i].start) \in Stamp /\ Older(h[i].start) <= h[i].start
    BY <2>1, HorizonAssumption DEF Older, Stamp
  <2> QED
    BY <2>1, <2>2 DEF Healthy
<1>3. Aged(h) = [i \in 1..Len(h) |-> A(i)]
  BY DEF Aged
<1> HIDE DEF A
<1>4. Aged(h) \in Seq(S)
  BY <1>1, <1>2, <1>3, IsASeq
<1>5. Len(Aged(h)) = Len(h)
  <2>1. DOMAIN Aged(h) = 1..Len(h)
    BY <1>3
  <2>2. DOMAIN Aged(h) = 1..Len(Aged(h)) /\ Len(Aged(h)) \in Nat
    BY <1>4, LenProperties
  <2> QED
    BY <1>1, <2>1, <2>2
<1>6. h # <<>> => Aged(h) # <<>>
  BY <1>1, <1>4, <1>5, EmptySeq
<1> QED
  BY <1>2, <1>3, <1>4, <1>5, <1>6 DEF History, Healthy

\* Taking up a status keeps a history one: what was known stays, and the
\* version is the last one.
LEMMA AppendedHistory ==
  ASSUME NEW h, History(h), NEW v \in Version
  PROVE  LET g == AppendStatus(h, StatusOf(v))
         IN  /\ History(g) /\ g # <<>>
             /\ Len(h) \in Nat /\ Len(g) \in Nat
             /\ LastStatus(g).version = v
             /\ \/ g = h
                \/ /\ Len(g) = Len(h) + 1
                   /\ \A i \in 1..Len(h) : g[i] = h[i]
                   /\ g[Len(h) + 1] = StatusOf(v)
                   /\ h # <<>> => LastStatus(h).version # v
<1> DEFINE S == Healthy(Version, Stamp)
           g == AppendStatus(h, StatusOf(v))
<1>1. h \in Seq(S) /\ Len(h) \in Nat
  BY HistoryEntries
<1>2. StatusOf(v) \in S /\ StatusOf(v).version = v
  BY HorizonAssumption DEF StatusOf, Healthy, Stamp
<1>3. g = IF h # <<>> /\ LastStatus(h).version = v THEN h ELSE Append(h, StatusOf(v))
  BY <1>1, <1>2, HealthyAppend
<1>4. CASE h # <<>> /\ LastStatus(h).version = v
  BY <1>1, <1>3, <1>4
<1>5. CASE ~(h # <<>> /\ LastStatus(h).version = v)
  <2>1. /\ g \in Seq(S) /\ Len(g) = Len(h) + 1
        /\ \A i \in 1..Len(h) : g[i] = h[i]
        /\ g[Len(h) + 1] = StatusOf(v)
    BY <1>1, <1>2, <1>3, <1>5, AppendProperties
  <2>2. g # <<>> /\ LastStatus(g).version = v
    BY <1>1, <1>2, <2>1, EmptySeq DEF LastStatus
  <2>3. History(g)
    BY <2>1 DEF History, Healthy
  <2> QED
    BY <1>1, <1>5, <2>1, <2>2, <2>3
<1> QED
  BY <1>4, <1>5

\* The report that a status is added to is a history, perhaps an empty one.
LEMMA ReportTyped ==
  ASSUME ReportsOK, NEW d \in Deployment, NEW u
  PROVE  History(Report(d, u))
<1>1. CASE u \in DOMAIN reports[d]
  BY <1>1 DEF Report, ReportsOK
<1>2. CASE u \notin DOMAIN reports[d]
  BY <1>2, EmptySeq DEF Report, History
<1> QED
  BY <1>1, <1>2

\* Every step keeps what each deployment knows well typed.
LEMMA ReportsStep ==
  ASSUME TInv, [Next]_vars
  PROVE  ReportsOK'
<1>1. /\ Deployment' = Deployment /\ \A d : Naming(d)' = Naming(d)
      /\ Family(config') = Family(config)
  BY WorldStep, FamilyStays DEF WorldOK, TInv
<1>2. WorldOK /\ LocalsOK /\ ReportsOK /\ LocalsOK'
  BY LocalsStep DEF TInv
<1>3. CASE Tick
  <2>1. ASSUME NEW d \in Deployment
        PROVE  /\ DOMAIN reports'[d] = DOMAIN reports[d]
               /\ DOMAIN fetched'[d] = DOMAIN fetched[d]
               /\ pc'[d] = pc[d] /\ Required(d)' = Required(d)
               /\ \A u \in DOMAIN reports[d] : reports'[d][u] = Aged(reports[d][u])
               /\ \A u \in DOMAIN fetched[d] : fetched'[d][u] = Aged(fetched[d][u])
    BY <1>3, <2>1 DEF Tick, AgedReports, Required
  <2> QED
    BY <1>1, <1>2, <2>1, AgedHistory, HowReportsChange DEF ReportsOK
<1>4. CASE \A d \in Deployment : Knows(d)
  <2>1. ASSUME NEW d \in Deployment
        PROVE  /\ DOMAIN reports'[d] \in {{}} \cup {RequiredBy(c, d) : c \in Naming(d)}
               /\ \A u \in DOMAIN reports'[d] : History(reports'[d][u])
    <3>1. CASE reports'[d] = reports[d]
      BY <1>2, <3>1 DEF ReportsOK
    <3>2. CASE /\ pc[d] = "fetch" /\ DOMAIN fetched[d] = Required(d)
               /\ reports'[d] = fetched[d]
      <4>1. basis[d] \in Naming(d)
        BY <1>2, <3>2 DEF LocalsOK, Naming
      <4>2. DOMAIN reports'[d] = RequiredBy(basis[d], d)
        BY <3>2 DEF Required
      <4> QED
        BY <1>2, <3>2, <4>1, <4>2 DEF ReportsOK
    <3> QED
      BY <1>4, <3>1, <3>2 DEF Knows
  <2>2. ASSUME NEW d \in Deployment
        PROVE  /\ DOMAIN fetched'[d] \subseteq (IF pc'[d] = "idle" THEN {} ELSE Required(d)')
               /\ \A u \in DOMAIN fetched'[d] : History(fetched'[d][u]) /\ fetched'[d][u] # <<>>
               /\ pc'[d] = "propagate" => DOMAIN fetched'[d] = Required(d)'
    <3>1. basis'[d] = basis[d] => Required(d)' = Required(d)
      BY DEF Required
    <3>2. CASE fetched'[d] = fetched[d] /\ pc'[d] = pc[d] /\ basis'[d] = basis[d]
      BY <1>2, <3>1, <3>2 DEF ReportsOK
    <3>3. CASE /\ fetched'[d] = fetched[d] /\ DOMAIN fetched[d] = {}
               /\ pc[d] = "idle" /\ pc'[d] \in {"publish", "fetch"}
      BY <3>3
    <3>4. CASE /\ fetched'[d] = fetched[d] /\ basis'[d] = basis[d]
               /\ \/ pc[d] \in {"publish", "save"} /\ pc'[d] \in {"save", "fetch"}
                  \/ /\ pc[d] = "fetch" /\ pc'[d] = "propagate"
                     /\ DOMAIN fetched[d] = Required(d)
      BY <1>2, <3>1, <3>4 DEF ReportsOK
    <3>5. CASE fetched'[d] = Nothing /\ pc'[d] = "idle"
      BY <3>5 DEF Nothing
    <3>6. ASSUME NEW u \in Deployment, Learns(d, u)
          PROVE  /\ DOMAIN fetched'[d] \subseteq (IF pc'[d] = "idle" THEN {} ELSE Required(d)')
                 /\ \A x \in DOMAIN fetched'[d] : History(fetched'[d][x]) /\ fetched'[d][x] # <<>>
                 /\ pc'[d] = "propagate" => DOMAIN fetched'[d] = Required(d)'
      <4>1. /\ status[u] \in Version /\ History(Report(d, u))
        BY <1>2, <3>6, ReportTyped DEF Learns, WorldOK
      <4>2. /\ History(AppendStatus(Report(d, u), StatusOf(status[u])))
            /\ AppendStatus(Report(d, u), StatusOf(status[u])) # <<>>
        BY <4>1, AppendedHistory
      <4> QED
        BY <1>2, <3>1, <3>6, <4>2 DEF Learns, ReportsOK
    <3> QED
      BY <1>4, <3>2, <3>3, <3>4, <3>5, <3>6 DEF Knows
  <2> QED
    BY <1>1, <2>1, <2>2, HowReportsChange DEF ReportsOK
<1> QED
  BY <1>3, <1>4, HowReportsChange

LEMMA StepTInv == ASSUME TInv, [Next]_vars PROVE TInv'
BY WorldStep, LocalsStep, ReportsStep DEF TInv

\* The type invariant follows from its parts.
LEMMA TInvTypes == TInv => TypeOK
BY DEF TInv, WorldOK, LocalsOK, ReportsOK, TypeOK

\* The rollout's states are those that TypeOK describes: the versions on record
\* were built, reports are about the deployments that some configuration
\* requires, and a reconcile goes by a configuration of its family.
THEOREM RolloutTypes == Spec => []TypeOK
<1>1. Spec => []TInv
  <2>1. TInv /\ [Next]_vars => TInv'
    BY StepTInv
  <2> QED
    BY InitTInv, <2>1, PTL DEF Spec
<1> QED
  BY <1>1, TInvTypes, PTL

-----------------------------------------------------------------------------
(***************************************************************************)
(* How the rest of the state changes.                                      *)
(***************************************************************************)

\* The reconcile of d has saved its reports and found a version on them.
Decides(d) ==
  /\ pc[d] = "fetch" /\ DOMAIN fetched[d] = Required(d)
  /\ reports'[d] = fetched[d] /\ fetched'[d] = fetched[d]
  /\ basis'[d] = basis[d] /\ read'[d] = read[d]
  /\ choice'[d] = Decision(d) /\ Decision(d) # NoVersion

\* A version passes from the manifest to the deploy tag, from there to the
\* version object, to the reconcile that reads it and to the status artifact.
Flows(d) ==
  /\ manifest'[d] >= manifest[d]
  /\ deploy'[d] = deploy[d] \/ Propagate(d)
  /\ running'[d] = running[d] \/ running'[d] = deploy[d]
  /\ \/ status'[d] = status[d]
     \/ pc[d] = "publish" /\ status'[d] = read[d] /\ read'[d] = read[d] /\ pc'[d] = "save"
  /\ \/ read'[d] = read[d] /\ (pc[d] = "idle" => pc'[d] = "idle")
     \/ read'[d] = Unset /\ pc'[d] = "idle"
     \/ read'[d] = running[d] /\ running'[d] = running[d] /\ status'[d] = status[d]
  /\ pc'[d] = "propagate" =>
       \/ /\ pc[d] = "propagate" /\ choice'[d] = choice[d]
          /\ basis'[d] = basis[d] /\ read'[d] = read[d]
       \/ Decides(d)

LEMMA HowValuesFlow ==
  ASSUME TInv, [Next]_vars
  PROVE  \A d \in Deployment : Flows(d)
<1> DEFINE Goal == \A d \in Deployment : Flows(d)
<1>1. /\ manifest \in [Deployment -> Version] /\ deploy \in [Deployment -> Version]
      /\ running \in [Deployment -> Version \cup {Unset}]
      /\ status \in [Deployment -> Version \cup {Unset}]
      /\ pc \in [Deployment -> Phase]
      /\ basis \in [Deployment -> Family(config) \cup {NoConfig}]
      /\ read \in [Deployment -> Version \cup {Unset}]
      /\ choice \in [Deployment -> Version \cup {NoVersion, Latest}]
      /\ reports = [d \in Deployment |-> reports[d]]
      /\ \A d \in Deployment : manifest[d] \in Nat
  BY VersionsAreNumbers DEF TInv, WorldOK, LocalsOK, ReportsOK
<1> USE DEF object, world
<1> DEFINE Same(d) ==
      /\ manifest'[d] = manifest[d] /\ running'[d] = running[d] /\ status'[d] = status[d]
      /\ deploy'[d] = deploy[d] /\ read'[d] = read[d] /\ pc'[d] = pc[d]
      /\ choice'[d] = choice[d] /\ basis'[d] = basis[d]
<1>2. ASSUME NEW d \in Deployment, Same(d) PROVE Flows(d)
  BY <1>1, <1>2 DEF Flows
<1> HIDE DEF Same
<1>3. ASSUME NEW d \in Deployment, Flows(d), \A e \in Deployment \ {d} : Same(e) PROVE Goal
  BY <1>2, <1>3
<1>4. ASSUME UNCHANGED <<manifest, deploy, running, status, pc, basis, read, choice>> PROVE Goal
  BY <1>2, <1>4 DEF Same
<1>5. ASSUME NEW d \in Deployment, Return(d), UNCHANGED <<manifest, running, status>>,
             deploy' = deploy \/ Propagate(d)
      PROVE  Goal
  <2>1. \A e \in Deployment \ {d} : Same(e)
    BY <1>1, <1>5 DEF Return, Same, Propagate
  <2>2. Flows(d)
    BY <1>1, <1>5 DEF Return, Flows
  <2> QED
    BY <1>3, <2>1, <2>2
<1>6. ASSUME NEW d \in Deployment, Begin(d) PROVE Goal
  <2>1. \A e \in Deployment \ {d} : Same(e)
    BY <1>1, <1>6 DEF Begin, Goto, Same
  <2>2. Flows(d)
    BY <1>1, <1>6 DEF Begin, Goto, Flows
  <2> QED
    BY <1>3, <2>1, <2>2
<1>7. ASSUME NEW d \in Deployment, PublishStatus(d) \/ SaveStatus(d) PROVE Goal
  <2>1. \A e \in Deployment \ {d} : Same(e)
    BY <1>1, <1>7 DEF PublishStatus, SaveStatus, Goto, Same
  <2>2. Flows(d)
    BY <1>1, <1>7 DEF PublishStatus, SaveStatus, Goto, Flows
  <2> QED
    BY <1>3, <2>1, <2>2
<1>8. ASSUME NEW d \in Deployment, NEW u \in Deployment, FetchStatus(d, u) PROVE Goal
  BY <1>2, <1>8 DEF FetchStatus, Same
<1>9. ASSUME NEW d \in Deployment, SaveReports(d) PROVE Goal
  <2>1. CASE Decision(d) = NoVersion
    BY <1>5, <1>9, <2>1 DEF SaveReports
  <2>2. CASE Decision(d) # NoVersion
    <3>1. /\ choice' = [choice EXCEPT ![d] = Decision(d)]
          /\ pc' = [pc EXCEPT ![d] = "propagate"] /\ pc[d] = "fetch"
          /\ reports' = [reports EXCEPT ![d] = fetched[d]] /\ DOMAIN fetched[d] = Required(d)
          /\ UNCHANGED <<basis, read, fetched, manifest, deploy, running, status>>
      BY <1>9, <2>2 DEF SaveReports, Goto
    <3>2. \A e \in Deployment \ {d} : Same(e)
      BY <1>1, <3>1 DEF Same
    <3>3. Decides(d)
      BY <1>1, <2>2, <3>1 DEF Decides
    <3>4. Flows(d)
      BY <1>1, <3>1, <3>3 DEF Flows
    <3> QED
      BY <1>3, <3>2, <3>4
  <2> QED
    BY <2>1, <2>2
<1>10. ASSUME NEW d \in Deployment,
              \/ \E u \in Deployment : StatusMissing(d, u)
              \/ Propagate(d) \/ ManifestMissing(d) \/ Abort(d)
       PROVE  Goal
  BY <1>5, <1>10 DEF StatusMissing, Propagate, ManifestMissing, Abort
<1>11. ASSUME NEW d \in Deployment, PushManifest(d) \/ Apply(d) PROVE Goal
  <2>1. \A e \in Deployment \ {d} : Same(e)
    BY <1>1, <1>11 DEF PushManifest, Apply, locals, Same
  <2>2. Flows(d)
    BY <1>1, <1>11 DEF PushManifest, Apply, locals, Flows
  <2> QED
    BY <1>3, <2>1, <2>2
<1>12. CASE (\E c \in Config : PublishConfig(c)) \/ Tick \/ UNCHANGED vars
  BY <1>4, <1>12 DEF PublishConfig, Tick, locals, vars
<1> QED
  BY <1>6, <1>7, <1>8, <1>9, <1>10, <1>11, <1>12 DEF Next, Move, Step

-----------------------------------------------------------------------------
(***************************************************************************)
(* The strengthenings of the safety properties.                            *)
(***************************************************************************)

\* Of a deployment that has run each version since r says, h says nothing that
\* did not happen.
TrueOf(r, h) ==
  \A i \in 1..Len(h) : r[h[i].version] # Never /\ r[h[i].version] <= h[i].start

\* What a deployment runs, was found running or is said to run, it has run.
RunOK ==
  \A d \in Deployment : \A v \in Version :
    v = running[d] \/ v = read[d] \/ v = status[d] => ranFrom[d][v] # Never

RanOK == ranFrom \in [Deployment -> [Version -> Stamp \cup {Never}]]

TruthInv ==
  /\ RanOK /\ RunOK
  /\ \A d \in Deployment :
       /\ \A u \in DOMAIN reports[d] : TrueOf(ranFrom[u], reports[d][u])
       /\ \A u \in DOMAIN fetched[d] : TrueOf(ranFrom[u], fetched[d][u])

\* The reports r, about the whole wave a, let v be propagated.
Allows(a, r, v) == Names(a) \subseteq DOMAIN r /\ v \in Candidates(a, r, 0)

\* What a decision was made on still stands when it is carried out.
DecidedOK ==
  \A d \in Deployment :
    pc[d] = "propagate" =>
      /\ WaveCaughtUp(With(d), BakeTimes[basis[d]], fetched[d], read[d], 0)
      /\ choice[d] = Latest <=> After(d).deployments = <<>>
      /\ choice[d] # Latest => Allows(After(d), fetched[d], choice[d])

\* g says all that h says, about statuses that are as old or older.
Grown(h, g) ==
  /\ Len(h) <= Len(g)
  /\ \A i \in 1..Len(h) : g[i].version = h[i].version /\ g[i].start <= h[i].start

\* h reports ever newer versions, up to m.
Rising(h, m) ==
  /\ \A i, j \in 1..Len(h) : i < j => h[i].version < h[j].version
  /\ \A i \in 1..Len(h) : h[i].version <= m

\* What is under the deploy tag of d is what it began with, or follows nothing,
\* or is still allowed by the reports saved last.
Earned(d) ==
  LET after == Conditions[config][d].after
  IN  \/ deploy[d] = 1
      \/ after.deployments = <<>>
      \/ Allows(after, reports[d], deploy[d])

\* Nothing moves backwards while the configuration stays.
OrderOK(d) ==
  /\ basis[d] \in {NoConfig, config}
  /\ deploy[d] <= manifest[d] /\ running[d] <= deploy[d]
  /\ read[d] <= running[d] /\ status[d] <= running[d]
  /\ pc[d] # "idle" => status[d] <= read[d]
  /\ \A u \in DOMAIN reports[d] : Rising(reports[d][u], status[u])
  /\ \A u \in DOMAIN fetched[d] :
       /\ Rising(fetched[d][u], status[u])
       /\ u \in DOMAIN reports[d] => Grown(reports[d][u], fetched[d][u])
  /\ d \in Named[config] => Earned(d)
  /\ pc[d] = "propagate" =>
       reports[d] = fetched[d] /\ (choice[d] # Latest => deploy[d] <= choice[d])

OrderInv == edits = 0 => \A d \in Deployment : OrderOK(d)

-----------------------------------------------------------------------------
(***************************************************************************)
(* How histories change.                                                   *)
(***************************************************************************)

\* Time passing, and a status taken up, only add to what a history says.
LEMMA AgedIsGrown ==
  ASSUME NEW h, History(h)
  PROVE  Grown(h, Aged(h))
BY AgedHistory, HistoryEntries DEF Grown

LEMMA AppendedIsGrown ==
  ASSUME NEW h, History(h), NEW v \in Version
  PROVE  Grown(h, AppendStatus(h, StatusOf(v)))
<1>1. /\ Len(h) \in Nat /\ \A i \in 1..Len(h) : h[i].start \in Int
  BY HistoryEntries
<1> QED
  BY <1>1, AppendedHistory DEF Grown

LEMMA SameIsGrown == ASSUME NEW h, History(h) PROVE Grown(h, h)
BY HistoryEntries DEF Grown

LEMMA AgedAlike ==
  ASSUME NEW h, History(h), NEW g, History(g), Grown(h, g)
  PROVE  Grown(Aged(h), Aged(g))
<1>1. /\ Len(h) \in Nat /\ Len(g) \in Nat /\ Len(h) <= Len(g)
      /\ \A i \in 1..Len(h) : h[i].start \in Int
      /\ \A i \in 1..Len(g) : g[i].start \in Int
  BY HistoryEntries DEF Grown
<1>2. \A i \in 1..Len(h) :
        i \in 1..Len(g) /\ g[i].version = h[i].version /\ g[i].start <= h[i].start
  BY <1>1 DEF Grown
<1>3. \A s, t \in Int : s <= t => Older(s) <= Older(t)
  BY HorizonAssumption DEF Older
<1> QED
  BY <1>1, <1>2, <1>3, AgedHistory DEF Grown

\* The duration a history credits a version with never shrinks.
LEMMA GrownDuration ==
  ASSUME NEW h, History(h), NEW g, History(g), Grown(h, g), NEW v
  PROVE  /\ VersionHealthyDuration(h, v, 0) \in Nat
         /\ VersionHealthyDuration(g, v, 0) \in Nat
         /\ VersionHealthyDuration(h, v, 0) <= VersionHealthyDuration(g, v, 0)
         /\ Versions(h) \subseteq Versions(g)
<1>1. ASSUME NEW f, History(f)
      PROVE  /\ VersionHealthyDuration(f, v, 0) =
                  IF Mentions(f, v) THEN 0 - f[FirstIndex(f, v)].start ELSE 0
             /\ VersionHealthyDuration(f, v, 0) \in Nat
  <2>1. /\ f \in Seq(Healthy(Version, Stamp)) /\ Len(f) \in Nat
        /\ \A i \in 1..Len(f) : f[i].start \in Int /\ f[i].start <= 0
    BY <1>1, HistoryEntries
  <2>2. VersionHealthyDuration(f, v, 0) =
          IF Mentions(f, v) THEN 0 - f[FirstIndex(f, v)].start ELSE 0
    BY <2>1, HealthyDuration
  <2>3. Mentions(f, v) => FirstIndex(f, v) \in 1..Len(f)
    BY <2>1, FirstIndexIsFirst
  <2>4. \A t \in Int : t <= 0 => 0 - t \in Nat
    OBVIOUS
  <2> QED
    BY <2>1, <2>2, <2>3, <2>4
<1>2. /\ Len(h) \in Nat /\ Len(g) \in Nat /\ Len(h) <= Len(g)
      /\ \A i \in 1..Len(h) :
           i \in 1..Len(g) /\ g[i].version = h[i].version /\ g[i].start <= h[i].start
      /\ \A i \in 1..Len(h) : h[i].start \in Int
      /\ \A i \in 1..Len(g) : g[i].start \in Int
  BY HistoryEntries DEF Grown
<1>3. CASE Mentions(h, v)
  <2> DEFINE i == FirstIndex(h, v)
             j == FirstIndex(g, v)
  <2>1. /\ i \in 1..Len(h) /\ h[i].version = v
        /\ \A k \in 1..Len(h) : h[k].version = v => i <= k
    BY <1>2, <1>3, FirstIndexIsFirst
  <2>2. Mentions(g, v)
    BY <1>2, <2>1 DEF Mentions
  <2>3. /\ j \in 1..Len(g) /\ g[j].version = v
        /\ \A k \in 1..Len(g) : g[k].version = v => j <= k
    BY <1>2, <2>2, FirstIndexIsFirst
  <2>4. j <= i
    BY <1>2, <2>1, <2>3
  <2>5. j = i
    BY <1>2, <2>1, <2>3, <2>4
  <2>6. g[i].start <= h[i].start /\ g[i].start \in Int /\ h[i].start \in Int
    BY <1>2, <2>1
  <2>7. \A s, t \in Int : s <= t => 0 - t <= 0 - s
    OBVIOUS
  <2> HIDE DEF i, j
  <2>8. VersionHealthyDuration(h, v, 0) = 0 - h[i].start
    BY <1>1, <1>3 DEF i
  <2>9. VersionHealthyDuration(g, v, 0) = 0 - g[i].start
    BY <1>1, <2>2, <2>5 DEF j
  <2> QED
    BY <1>1, <1>2, <2>6, <2>7, <2>8, <2>9 DEF Versions
<1>4. CASE ~Mentions(h, v)
  <2>1. VersionHealthyDuration(h, v, 0) = 0
    BY <1>1, <1>4
  <2> QED
    BY <1>1, <1>2, <2>1 DEF Versions
<1> QED
  BY <1>3, <1>4

\* A history stays one of rising versions: as it ages, and when it takes up a
\* version that is no older than the last one it was told.
LEMMA RisingAged ==
  ASSUME NEW h, History(h), NEW m \in Int, NEW n \in Int, m <= n, Rising(h, m)
  PROVE  Rising(h, n) /\ Rising(Aged(h), n)
<1>1. /\ Len(h) \in Nat /\ \A i \in 1..Len(h) : h[i].version \in Nat
  BY HistoryEntries, VersionsAreNumbers
<1>2. Rising(h, n)
  BY <1>1 DEF Rising
<1>3. Len(Aged(h)) = Len(h) /\ \A i \in 1..Len(h) : Aged(h)[i].version = h[i].version
  BY AgedHistory
<1> QED
  BY <1>2, <1>3 DEF Rising

LEMMA RisingAppended ==
  ASSUME NEW h, History(h), NEW v \in Version, Rising(h, v)
  PROVE  Rising(AppendStatus(h, StatusOf(v)), v)
<1> DEFINE g == AppendStatus(h, StatusOf(v))
<1>1. /\ Len(h) \in Nat /\ \A i \in 1..Len(h) : h[i].version \in Nat
      /\ v \in Nat
  BY HistoryEntries, VersionsAreNumbers
<1>2. CASE g = h
  BY <1>2
<1>3. ASSUME Len(g) = Len(h) + 1, \A i \in 1..Len(h) : g[i] = h[i],
             g[Len(h) + 1] = StatusOf(v), h # <<>> => LastStatus(h).version # v
      PROVE  Rising(g, v)
  <2> HIDE DEF g
  <2>1. \A i \in 1..Len(h) : g[i].version = h[i].version
    BY <1>3
  <2>2. g[Len(h) + 1].version = v
    BY <1>3 DEF StatusOf
  <2>3. \A i \in 1..Len(h) : h[i].version < v
    <3>1. ASSUME NEW i \in 1..Len(h) PROVE h[i].version < v
      <4>1. h # <<>> /\ Len(h) \in 1..Len(h)
        BY <1>1, <3>1, HistoryEntries, EmptySeq
      <4>2. h[Len(h)].version < v
        BY <1>1, <1>3, <4>1 DEF LastStatus, Rising
      <4>3. i = Len(h) \/ h[i].version < h[Len(h)].version
        BY <1>1, <4>1 DEF Rising
      <4> QED
        BY <1>1, <3>1, <4>1, <4>2, <4>3
    <3> QED
      BY <3>1
  <2>4. \A i \in 1..Len(g) : i \in 1..Len(h) \/ i = Len(h) + 1
    BY <1>1, <1>3
  <2>5. \A i, j \in 1..Len(h) : i < j => h[i].version < h[j].version
    BY DEF Rising
  <2>6. \A i, j \in 1..Len(g) : i < j => g[i].version < g[j].version
    <3>1. ASSUME NEW i \in 1..Len(g), NEW j \in 1..Len(g), i < j
          PROVE  g[i].version < g[j].version
      <4>1. i \in 1..Len(h)
        BY <1>1, <2>4, <3>1
      <4>2. CASE j \in 1..Len(h)
        BY <1>1, <2>1, <2>2, <2>5, <3>1, <4>1, <4>2
      <4>3. CASE j = Len(h) + 1
        BY <1>1, <2>1, <2>2, <2>3, <4>1, <4>3
      <4> QED
        BY <2>4, <3>1, <4>2, <4>3
    <3> QED
      BY <3>1
  <2>7. \A i \in 1..Len(g) : g[i].version <= v
    BY <1>1, <2>1, <2>2, <2>3, <2>4
  <2> QED
    BY <2>6, <2>7 DEF Rising
<1> QED
  BY <1>2, <1>3, AppendedHistory

-----------------------------------------------------------------------------
(***************************************************************************)
(* Decisions.                                                              *)
(***************************************************************************)

\* What the reports allow, they still allow when they say more.
LEMMA AllowsGrown ==
  ASSUME NEW a \in Waves(0..Horizon), a.deployments # <<>>, NEW r, NEW s, NEW v,
         Allows(a, r, v), Names(a) \subseteq DOMAIN s,
         \A u \in Names(a) : History(r[u]) /\ History(s[u]) /\ Grown(r[u], s[u])
  PROVE  Allows(a, s, v)
<1> DEFINE first == a.deployments[1]
<1>1. /\ first \in Names(a) /\ a.bakeTime \in 0..Horizon /\ a.bakeTime \in Int
  BY NamesOfList, HorizonAssumption
<1>2. /\ first \in DOMAIN r /\ v \in Versions(r[first]) /\ Baked(a, r, v, 0)
  BY <1>1 DEF Allows, Candidates
<1>3. ASSUME NEW u \in Names(a)
      PROVE  VersionHealthyDuration(s[u], v, 0) >= a.bakeTime
  <2>1. VersionHealthyDuration(r[u], v, 0) >= a.bakeTime
    BY <1>2, <1>3 DEF Allows, Baked
  <2>2. /\ VersionHealthyDuration(r[u], v, 0) \in Nat
        /\ VersionHealthyDuration(s[u], v, 0) \in Nat
        /\ VersionHealthyDuration(r[u], v, 0) <= VersionHealthyDuration(s[u], v, 0)
    BY <1>3, GrownDuration
  <2> QED
    BY <1>1, <2>1, <2>2
<1>4. v \in Versions(s[first])
  BY <1>1, <1>2, GrownDuration
<1>5. Baked(a, s, v, 0)
  BY <1>3 DEF Baked
<1> QED
  BY <1>1, <1>4, <1>5 DEF Allows, Candidates

\* A wave that has caught up stays so as time passes.
LEMMA CaughtUpAged ==
  ASSUME NEW W, NEW b, NEW r, NEW s, NEW v, WaveCaughtUp(W, b, r, v, 0),
         \A u \in W : b[u] \in Int /\ History(r[u]) /\ r[u] # <<>> /\ s[u] = Aged(r[u])
  PROVE  WaveCaughtUp(W, b, s, v, 0)
<1>1. ASSUME NEW u \in W
      PROVE  /\ LastStatus(s[u]).version = v /\ LastStatus(s[u]).state = "Healthy"
             /\ VersionHealthyDuration(s[u], v, 0) >= b[u]
  <2>1. /\ Len(r[u]) \in 1..Len(r[u])
    BY <1>1, HistoryEntries, EmptySeq
  <2>2. /\ LastStatus(r[u]).version = v /\ LastStatus(r[u]).state = "Healthy"
        /\ VersionHealthyDuration(r[u], v, 0) >= b[u]
    BY <1>1 DEF WaveCaughtUp
  <2>3. LastStatus(s[u]).version = v /\ LastStatus(s[u]).state = "Healthy"
    BY <1>1, <2>1, <2>2, AgedHistory DEF LastStatus
  <2>4. History(s[u]) /\ Grown(r[u], s[u])
    BY <1>1, AgedHistory, AgedIsGrown
  <2>5. /\ VersionHealthyDuration(r[u], v, 0) \in Nat
        /\ VersionHealthyDuration(s[u], v, 0) \in Nat
        /\ VersionHealthyDuration(r[u], v, 0) <= VersionHealthyDuration(s[u], v, 0)
    BY <1>1, <2>4, GrownDuration
  <2> QED
    BY <1>1, <2>2, <2>3, <2>5
<1> QED
  BY <1>1 DEF WaveCaughtUp

\* What a reconcile goes by.
LEMMA BasisIs ==
  ASSUME WorldOK, LocalsOK, NEW d \in Deployment, pc[d] # "idle"
  PROVE  /\ basis[d] \in Config /\ d \in Named[basis[d]]
         /\ After(d) \in Waves(0..Horizon)
         /\ Required(d) = With(d) \cup Names(After(d))
         /\ Required(d) \subseteq Named[basis[d]]
         /\ With(d) = DeployWith(Content[basis[d]], d)
         /\ Named[basis[d]] \subseteq Deployment
         /\ \A u \in Named[basis[d]] : BakeTimes[basis[d]][u] \in 0..Horizon
<1>1. /\ config \in Config /\ basis[d] \in Family(config) /\ d \in Named[basis[d]]
  BY DEF WorldOK, LocalsOK
<1>2. basis[d] \in Config /\ Named[basis[d]] \subseteq Deployment
  BY <1>1, Families DEF Deployment
<1> DEFINE c == Content[basis[d]]
<1>3. c \in Seq(Seq(Waves(0..Horizon))) /\ Named[basis[d]] = Deployments(c)
  BY <1>1, <1>2, RequiredInFamily
<1>4. ASSUME NEW u \in Named[basis[d]] PROVE BakeTimes[basis[d]][u] \in 0..Horizon
  <2>1. u \in Deployments(c) /\ PositionOf(c, u) \in Positions(c)
    BY <1>3, <1>4, PlaceOfDeployment
  <2>2. WaveAt(c, PositionOf(c, u)) \in Waves(0..Horizon)
    BY <1>3, <2>1, PositionsAreIn
  <2>3. WaveAt(c, PositionOf(c, u)).bakeTime \in 0..Horizon
    BY <2>2, NamesOfList
  <2>4. DeploymentBakeTime(c, u) \in 0..Horizon
    BY <2>1, <2>3 DEF DeploymentBakeTime
  <2>5. BakeTimes[basis[d]][u] = DeploymentBakeTime(c, u)
    BY <1>2, <1>4 DEF BakeTimes
  <2> QED
    BY <2>4, <2>5
<1> QED
  BY <1>1, <1>2, <1>4, RequiredInFamily DEF After, With, Required, RequiredBy

\* Reports are about deployments, those with a Propagation.
LEMMA KnownAreDeployed ==
  ASSUME TInv, NEW d \in Deployment
  PROVE  DOMAIN reports[d] \subseteq Deployment /\ DOMAIN fetched[d] \subseteq Deployment
<1>1. DOMAIN reports[d] \subseteq Deployment
  <2>1. ASSUME NEW c \in Naming(d) PROVE RequiredBy(c, d) \subseteq Deployment
    <3>1. config \in Config
      BY DEF TInv, WorldOK
    <3>2. c \in Config /\ d \in Named[c] /\ Named[c] \subseteq Deployment
      BY <3>1, Families DEF Naming, Deployment
    <3> QED
      BY <3>2, RequiredInFamily
  <2> QED
    BY <2>1 DEF TInv, ReportsOK
<1>2. DOMAIN fetched[d] \subseteq Deployment
  BY BasisIs DEF TInv, ReportsOK
<1> QED
  BY <1>1, <1>2

\* The decision of a reconcile is allowed by the reports that it saves.
LEMMA DecisionAllowed ==
  ASSUME TInv, NEW d \in Deployment, pc[d] = "fetch", DOMAIN fetched[d] = Required(d),
         Decision(d) # NoVersion
  PROVE  /\ WaveCaughtUp(With(d), BakeTimes[basis[d]], fetched[d], read[d], 0)
         /\ Decision(d) = Latest <=> After(d).deployments = <<>>
         /\ Decision(d) # Latest =>
              LET h == fetched[d][After(d).deployments[1]]
              IN  /\ Allows(After(d), fetched[d], Decision(d))
                  /\ History(h)
                  /\ \A w \in Candidates(After(d), fetched[d], 0) :
                       LastIndex(h, w) <= LastIndex(h, Decision(d))
<1> DEFINE a == After(d)
           first == a.deployments[1]
<1>1. /\ WaveCaughtUp(With(d), BakeTimes[basis[d]], fetched[d], read[d], 0)
      /\ Decision(d) = NextVersion(a, fetched[d], 0)
  BY DEF Decision
<1>2. a \in Waves(0..Horizon) /\ Names(a) \subseteq DOMAIN fetched[d]
  BY BasisIs DEF TInv
<1>3. CASE a.deployments = <<>>
  BY <1>1, <1>3 DEF NextVersion
<1>4. CASE a.deployments # <<>>
  <2>1. first \in DOMAIN fetched[d] /\ History(fetched[d][first])
    BY <1>2, <1>4, NamesOfList DEF TInv, ReportsOK
  <2>2. /\ Len(fetched[d][first]) \in Nat
        /\ Versions(fetched[d][first]) \subseteq Version
    BY <2>1, HistoryEntries DEF Versions
  <2>3. /\ Decision(d) \in Candidates(a, fetched[d], 0)
        /\ \A w \in Candidates(a, fetched[d], 0) :
             LastIndex(fetched[d][first], w) <= LastIndex(fetched[d][first], Decision(d))
    BY <1>1, <1>4, <2>2, NextVersionIs
  <2>4. Decision(d) \in Version
    BY <2>2, <2>3 DEF Candidates
  <2> QED
    BY <1>1, <1>2, <1>4, <2>1, <2>3, <2>4, MarkAssumption DEF Allows
<1> QED
  BY <1>3, <1>4

LEMMA StepDecidedOK ==
  ASSUME TInv, DecidedOK, [Next]_vars
  PROVE  DecidedOK'
<1>1. TInv' /\ Deployment' = Deployment
  BY StepTInv, WorldStep DEF TInv
<1> SUFFICES ASSUME NEW d \in Deployment, pc'[d] = "propagate"
             PROVE  /\ WaveCaughtUp(With(d)', BakeTimes[basis'[d]], fetched'[d], read'[d], 0)
                    /\ choice'[d] = Latest <=> After(d)'.deployments = <<>>
                    /\ choice'[d] # Latest => Allows(After(d)', fetched'[d], choice'[d])
  BY <1>1 DEF DecidedOK
<1>2. CASE Decides(d)
  <2>1. After(d)' = After(d) /\ With(d)' = With(d)
    BY <1>2 DEF Decides, After, With
  <2>2. pc[d] = "fetch" /\ DOMAIN fetched[d] = Required(d) /\ Decision(d) # NoVersion
    BY <1>2 DEF Decides
  <2>3. /\ choice'[d] = Decision(d) /\ basis'[d] = basis[d]
        /\ fetched'[d] = fetched[d] /\ read'[d] = read[d]
    BY <1>2 DEF Decides
  <2>4. /\ WaveCaughtUp(With(d), BakeTimes[basis[d]], fetched[d], read[d], 0)
        /\ Decision(d) = Latest <=> After(d).deployments = <<>>
        /\ Decision(d) # Latest => Allows(After(d), fetched[d], Decision(d))
    BY <2>2, DecisionAllowed
  <2> QED
    BY <2>1, <2>3, <2>4
<1>3. ASSUME pc[d] = "propagate", choice'[d] = choice[d], basis'[d] = basis[d],
             read'[d] = read[d]
      PROVE  /\ WaveCaughtUp(With(d)', BakeTimes[basis'[d]], fetched'[d], read'[d], 0)
             /\ choice'[d] = Latest <=> After(d)'.deployments = <<>>
             /\ choice'[d] # Latest => Allows(After(d)', fetched'[d], choice'[d])
  <2>1. After(d)' = After(d) /\ With(d)' = With(d)
    BY <1>3 DEF After, With
  <2>2. /\ WaveCaughtUp(With(d), BakeTimes[basis[d]], fetched[d], read[d], 0)
        /\ choice[d] = Latest <=> After(d).deployments = <<>>
        /\ choice[d] # Latest => Allows(After(d), fetched[d], choice[d])
    BY <1>3 DEF DecidedOK
  <2>3. CASE fetched'[d] = fetched[d]
    BY <1>3, <2>1, <2>2, <2>3
  <2>4. CASE Tick
    <3>1. /\ DOMAIN fetched[d] = Required(d)
          /\ \A u \in Required(d) : History(fetched[d][u]) /\ fetched[d][u] # <<>>
      BY <1>3 DEF TInv, ReportsOK
    <3>2. /\ After(d) \in Waves(0..Horizon)
          /\ Required(d) = With(d) \cup Names(After(d))
          /\ \A u \in Required(d) : BakeTimes[basis[d]][u] \in Int
      BY <1>3, BasisIs, HorizonAssumption DEF TInv
    <3>3. fetched'[d] = [u \in DOMAIN fetched[d] |-> Aged(fetched[d][u])]
      BY <2>4 DEF Tick, AgedReports
    <3>4. \A u \in Required(d) :
            /\ fetched'[d][u] = Aged(fetched[d][u])
            /\ History(fetched'[d][u]) /\ Grown(fetched[d][u], fetched'[d][u])
      BY <3>1, <3>3, AgedHistory, AgedIsGrown
    <3>5. WaveCaughtUp(With(d), BakeTimes[basis[d]], fetched'[d], read[d], 0)
      BY <2>2, <3>1, <3>2, <3>4, CaughtUpAged
    <3>6. choice[d] # Latest => Allows(After(d), fetched'[d], choice[d])
      BY <2>2, <3>1, <3>2, <3>3, <3>4, AllowsGrown
    <3> QED
      BY <1>3, <2>1, <2>2, <3>5, <3>6
  <2>5. CASE Knows(d)
    BY <1>3, <2>3, <2>5 DEF Knows, Learns
  <2> QED
    BY <2>4, <2>5, HowReportsChange
<1> QED
  BY <1>2, <1>3, HowValuesFlow DEF Flows

-----------------------------------------------------------------------------
(***************************************************************************)
(* What is believed happened.                                              *)
(***************************************************************************)

\* What has run stays so, as far back as before.
StillRan(r, s) == \A v \in Version : r[v] # Never => s[v] = r[v]

\* What has run has run for longer.
RanLonger(r, s) ==
  \A v \in Version : s[v] = IF r[v] = Never THEN Never ELSE Older(r[v])

LEMMA HowRanChanges ==
  ASSUME TInv, RanOK, [HistoryNext]_historyVars
  PROVE  /\ [Next]_vars /\ RanOK'
         /\ \/ Tick /\ \A d \in Deployment : RanLonger(ranFrom[d], ranFrom'[d])
            \/ Untimed /\ \A d \in Deployment :
                 /\ StillRan(ranFrom[d], ranFrom'[d])
                 /\ \A v \in Version :
                      running'[d] = v /\ running'[d] # running[d] => ranFrom'[d][v] # Never
<1>1. [Next]_vars
  BY DEF HistoryNext, historyVars, Next
<1>2. Deployment' = Deployment
  BY <1>1, WorldStep DEF TInv
<1>3. 0 # Never /\ 0 \in Stamp /\ \A t \in Stamp : Older(t) \in Stamp /\ t # Never
  BY HorizonAssumption DEF Never, Stamp, Older
<1>4. /\ ranFrom \in [Deployment -> [Version -> Stamp \cup {Never}]]
  BY DEF RanOK
<1>5. CASE Remember /\ Untimed
  <2>1. ranFrom' = [d \in Deployment |-> [v \in Version |->
          IF ranFrom[d][v] = Never /\ running'[d] = v THEN 0 ELSE ranFrom[d][v]]]
    BY <1>5, <1>2 DEF Remember
  <2>2. ranFrom' \in [Deployment -> [Version -> Stamp \cup {Never}]]
    BY <1>3, <1>4, <2>1
  <2>3. \A d \in Deployment :
          /\ StillRan(ranFrom[d], ranFrom'[d])
          /\ \A v \in Version : running'[d] = v => ranFrom'[d][v] # Never
    BY <1>3, <1>4, <2>1 DEF StillRan
  <2> QED
    BY <1>1, <1>2, <1>5, <2>2, <2>3 DEF RanOK
<1>6. CASE ((\E c \in Config : PublishConfig(c)) /\ UNCHANGED ranFrom) \/ UNCHANGED historyVars
  <2>1. ranFrom' = ranFrom /\ running' = running
    BY <1>6 DEF PublishConfig, historyVars, vars
  <2> QED
    BY <1>1, <1>2, <1>4, <1>6, <2>1 DEF RanOK, StillRan, Untimed, historyVars
<1>7. CASE Tick /\ Recede
  <2>1. ranFrom' = [d \in Deployment |-> [v \in Version |->
          IF ranFrom[d][v] = Never THEN Never ELSE Older(ranFrom[d][v])]]
    BY <1>7, <1>2 DEF Recede
  <2>2. ranFrom' \in [Deployment -> [Version -> Stamp \cup {Never}]]
    BY <1>3, <1>4, <2>1
  <2> QED
    BY <1>1, <1>2, <1>7, <2>1, <2>2 DEF RanOK, RanLonger
<1> QED
  BY <1>5, <1>6, <1>7 DEF HistoryNext, Untimed

\* A true history stays true.
LEMMA TrueStill ==
  ASSUME NEW h, History(h), NEW r, NEW s, TrueOf(r, h), StillRan(r, s)
  PROVE  TrueOf(s, h)
BY HistoryEntries DEF TrueOf, StillRan

LEMMA TrueAged ==
  ASSUME NEW h, History(h), NEW r \in [Version -> Stamp \cup {Never}], NEW s,
         TrueOf(r, h), RanLonger(r, s)
  PROVE  TrueOf(s, Aged(h))
<1>1. \A a, b \in Int : a <= b => Older(a) <= Older(b)
  BY HorizonAssumption DEF Older
<1>2. \A a \in Stamp : a \in Int /\ Older(a) # Never
  BY HorizonAssumption DEF Older, Stamp, Never
<1>3. ASSUME NEW i \in 1..Len(h)
      PROVE  s[h[i].version] # Never /\ s[h[i].version] <= Older(h[i].start)
  <2>1. h[i].version \in Version /\ h[i].start \in Int
    BY HistoryEntries
  <2>2. r[h[i].version] # Never /\ r[h[i].version] <= h[i].start
    BY DEF TrueOf
  <2>3. r[h[i].version] \in Stamp
    BY <2>1, <2>2
  <2>4. s[h[i].version] = Older(r[h[i].version])
    BY <2>1, <2>2 DEF RanLonger
  <2> QED
    BY <1>1, <1>2, <2>1, <2>2, <2>3, <2>4
<1> QED
  BY <1>3, AgedHistory DEF TrueOf

LEMMA TrueAppended ==
  ASSUME NEW h, History(h), NEW r \in [Version -> Stamp \cup {Never}], TrueOf(r, h),
         NEW v \in Version, r[v] # Never
  PROVE  TrueOf(r, AppendStatus(h, StatusOf(v)))
<1> DEFINE g == AppendStatus(h, StatusOf(v))
<1>1. Len(h) \in Nat
  BY HistoryEntries
<1>2. CASE g = h
  BY <1>2
<1>3. ASSUME Len(g) = Len(h) + 1, \A i \in 1..Len(h) : g[i] = h[i],
             g[Len(h) + 1] = StatusOf(v)
      PROVE  TrueOf(r, g)
  <2> HIDE DEF g
  <2>1. r[v] <= 0
    BY HorizonAssumption DEF Stamp
  <2>2. g[Len(h) + 1].version = v /\ g[Len(h) + 1].start = 0
    BY <1>3 DEF StatusOf
  <2>3. \A i \in 1..Len(g) : i \in 1..Len(h) \/ i = Len(h) + 1
    BY <1>1, <1>3
  <2> QED
    BY <1>3, <2>1, <2>2, <2>3 DEF TrueOf
<1> QED
  BY <1>2, <1>3, AppendedHistory

\* What a deployment ran or was said to run, it ran.
LEMMA StepRunOK ==
  ASSUME TInv, RanOK, RunOK, [HistoryNext]_historyVars
  PROVE  RunOK'
<1>1. [Next]_vars /\ Deployment' = Deployment /\ RanOK'
  BY HowRanChanges, WorldStep DEF TInv
<1>2. \A t \in Stamp : Older(t) # Never
  BY HorizonAssumption DEF Never, Stamp, Older
<1>3. ASSUME NEW d \in Deployment, NEW v \in Version, ranFrom[d][v] # Never
      PROVE  ranFrom'[d][v] # Never
  <2>1. ranFrom[d][v] \in Stamp
    BY <1>3 DEF RanOK
  <2> QED
    BY <1>2, <1>3, <2>1, HowRanChanges DEF StillRan, RanLonger
<1>4. ASSUME NEW d \in Deployment, NEW v \in Version, v = running'[d]
      PROVE  ranFrom'[d][v] # Never
  <2>1. CASE running'[d] = running[d]
    BY <1>3, <1>4, <2>1 DEF RunOK
  <2>2. CASE running'[d] # running[d]
    BY <1>4, <2>2, HowRanChanges DEF Tick
  <2> QED
    BY <2>1, <2>2
<1>5. ASSUME NEW d \in Deployment, NEW v \in Version, v = read'[d] \/ v = status'[d]
      PROVE  ranFrom'[d][v] # Never
  <2>1. Flows(d) /\ v # Unset
    BY <1>1, HowValuesFlow, VersionsAreNumbers
  <2>2. v = read[d] \/ v = status[d] \/ v = running[d]
    BY <1>5, <2>1 DEF Flows
  <2> QED
    BY <1>3, <2>2 DEF RunOK
<1> QED
  BY <1>1, <1>4, <1>5 DEF RunOK

LEMMA StepTruthInv ==
  ASSUME TInv, TruthInv, [HistoryNext]_historyVars
  PROVE  TruthInv'
<1>1. [Next]_vars /\ Deployment' = Deployment /\ RanOK' /\ RunOK' /\ TInv'
  BY HowRanChanges, WorldStep, StepRunOK, StepTInv DEF TInv, TruthInv
<1>2. /\ ranFrom \in [Deployment -> [Version -> Stamp \cup {Never}]]
      /\ ranFrom' \in [Deployment -> [Version -> Stamp \cup {Never}]]
  BY <1>1 DEF TruthInv, RanOK
<1>3. ASSUME NEW d \in Deployment
      PROVE  /\ \A u \in DOMAIN reports[d] : 
                  u \in Deployment /\ History(reports[d][u]) /\ TrueOf(ranFrom[u], reports[d][u])
             /\ \A u \in DOMAIN fetched[d] :
                  u \in Deployment /\ History(fetched[d][u]) /\ TrueOf(ranFrom[u], fetched[d][u])
  <2>1. DOMAIN reports[d] \subseteq Deployment /\ DOMAIN fetched[d] \subseteq Deployment
    BY KnownAreDeployed
  <2> QED
    BY <2>1 DEF TInv, ReportsOK, TruthInv
<1>4. CASE Tick /\ \A d \in Deployment : RanLonger(ranFrom[d], ranFrom'[d])
  <2>1. ASSUME NEW d \in Deployment
        PROVE  /\ \A u \in DOMAIN reports'[d] : TrueOf(ranFrom'[u], reports'[d][u])
               /\ \A u \in DOMAIN fetched'[d] : TrueOf(ranFrom'[u], fetched'[d][u])
    <3>1. /\ reports'[d] = [u \in DOMAIN reports[d] |-> Aged(reports[d][u])]
          /\ fetched'[d] = [u \in DOMAIN fetched[d] |-> Aged(fetched[d][u])]
      BY <1>1, <1>4, <2>1 DEF Tick, AgedReports, TInv, ReportsOK
    <3> QED
      <4>1. ASSUME NEW u, NEW h, u \in Deployment, History(h), TrueOf(ranFrom[u], h)
            PROVE  TrueOf(ranFrom'[u], Aged(h))
        BY <1>2, <1>4, <4>1, TrueAged
      <4>2. ASSUME NEW u \in DOMAIN reports'[d] PROVE TrueOf(ranFrom'[u], reports'[d][u])
        <5>1. u \in DOMAIN reports[d] /\ reports'[d][u] = Aged(reports[d][u])
          BY <3>1
        <5>2. u \in Deployment /\ History(reports[d][u]) /\ TrueOf(ranFrom[u], reports[d][u])
          BY <1>3, <5>1
        <5> QED
          BY <4>1, <5>1, <5>2
      <4>3. ASSUME NEW u \in DOMAIN fetched'[d] PROVE TrueOf(ranFrom'[u], fetched'[d][u])
        <5>1. u \in DOMAIN fetched[d] /\ fetched'[d][u] = Aged(fetched[d][u])
          BY <3>1
        <5>2. u \in Deployment /\ History(fetched[d][u]) /\ TrueOf(ranFrom[u], fetched[d][u])
          BY <1>3, <5>1
        <5> QED
          BY <4>1, <5>1, <5>2
      <4> QED
        BY <4>2, <4>3
  <2> QED
    BY <1>1, <2>1 DEF TruthInv
<1>5. CASE /\ \A d \in Deployment : StillRan(ranFrom[d], ranFrom'[d])
           /\ \A d \in Deployment : Knows(d)
  <2>1. ASSUME NEW d \in Deployment
        PROVE  /\ \A u \in DOMAIN reports[d] : TrueOf(ranFrom'[u], reports[d][u])
               /\ \A u \in DOMAIN fetched[d] : TrueOf(ranFrom'[u], fetched[d][u])
    BY <1>3, <1>5, <2>1, TrueStill
  <2>2. ASSUME NEW d \in Deployment, NEW u \in Deployment, Learns(d, u)
        PROVE  \A x \in DOMAIN fetched'[d] : TrueOf(ranFrom'[x], fetched'[d][x])
    <3>1. status[u] \in Version /\ History(Report(d, u))
      BY <2>2, ReportTyped DEF TInv, WorldOK, Learns
    <3>2. TrueOf(ranFrom[u], Report(d, u))
      <4>1. Len(<<>>) = 0
        BY EmptySeq
      <4> QED
        BY <1>3, <4>1 DEF Report, TrueOf
    <3>3. ranFrom[u] \in [Version -> Stamp \cup {Never}] /\ ranFrom[u][status[u]] # Never
      BY <1>2, <3>1 DEF TruthInv, RunOK
    <3>4. /\ TrueOf(ranFrom[u], AppendStatus(Report(d, u), StatusOf(status[u])))
          /\ History(AppendStatus(Report(d, u), StatusOf(status[u])))
      BY <3>1, <3>2, <3>3, TrueAppended, AppendedHistory
    <3>5. TrueOf(ranFrom'[u], AppendStatus(Report(d, u), StatusOf(status[u])))
      BY <1>5, <3>4, TrueStill
    <3> QED
      BY <2>1, <2>2, <3>5 DEF Learns
  <2>3. ASSUME NEW d \in Deployment
        PROVE  /\ \A u \in DOMAIN reports'[d] : TrueOf(ranFrom'[u], reports'[d][u])
               /\ \A u \in DOMAIN fetched'[d] : TrueOf(ranFrom'[u], fetched'[d][u])
    <3>1. reports'[d] = reports[d] \/ reports'[d] = fetched[d]
      BY <1>5, <2>3 DEF Knows
    <3>2. \/ fetched'[d] = fetched[d] \/ DOMAIN fetched'[d] = {}
          \/ \E u \in Deployment : Learns(d, u)
      BY <1>5, <2>3 DEF Knows, Nothing
    <3> QED
      BY <2>1, <2>2, <3>1, <3>2
  <2> QED
    BY <1>1, <2>3 DEF TruthInv
<1> QED
  BY <1>4, <1>5, UntimedReports, HowRanChanges DEF TruthInv

LEMMA InitTruth == HistoryInit => TruthInv /\ DecidedOK
<1> SUFFICES ASSUME HistoryInit PROVE TruthInv /\ DecidedOK
  OBVIOUS
<1>1. /\ \A d \in Deployment :
           /\ running[d] = Unset /\ read[d] = Unset /\ status[d] = Unset
           /\ pc[d] = "idle"
           /\ DOMAIN reports[d] = {} /\ DOMAIN fetched[d] = {}
      /\ ranFrom = [d \in Deployment |-> [v \in Version |-> Never]]
  BY DEF HistoryInit, Init
<1>2. RanOK /\ RunOK
  BY <1>1, VersionsAreNumbers DEF RanOK, RunOK
<1> QED
  BY <1>1, <1>2 DEF TruthInv, DecidedOK

\* A duration that a true history credits a version with, it has run.
LEMMA CreditIsRun ==
  ASSUME NEW h, History(h), NEW r \in [Version -> Stamp \cup {Never}], TrueOf(r, h),
         NEW v, Mentions(h, v), NEW t \in Int, VersionHealthyDuration(h, v, 0) >= t
  PROVE  v \in Version /\ r[v] # Never /\ -r[v] >= t
<1> DEFINE i == FirstIndex(h, v)
<1>1. /\ h \in Seq(Healthy(Version, Stamp)) /\ Len(h) \in Nat
  BY HistoryEntries
<1>2. i \in 1..Len(h) /\ h[i].version = v
  BY <1>1, FirstIndexIsFirst
<1>3. h[i].version \in Version /\ h[i].start \in Int
  BY <1>2, HistoryEntries
<1>4. VersionHealthyDuration(h, v, 0) = 0 - h[i].start
  BY <1>1, HealthyDuration
<1>5. r[v] # Never /\ r[v] <= h[i].start
  BY <1>2 DEF TrueOf
<1>6. r[v] \in Int
  BY <1>2, <1>3, <1>5, HorizonAssumption DEF Stamp
<1>7. \A a, b, c \in Int : a <= b /\ 0 - b >= c => -a >= c
  OBVIOUS
<1> QED
  BY <1>2, <1>3, <1>4, <1>5, <1>6, <1>7

\* What is believed of another deployment, saved or not, is so.
LEMMA TruthIsTruthful == TInv /\ TruthInv => ReportsTruthful
<1> SUFFICES ASSUME TInv, TruthInv PROVE ReportsTruthful
  OBVIOUS
<1>1. ASSUME NEW u \in Deployment, NEW h, History(h), TrueOf(ranFrom[u], h), NEW i \in 1..Len(h)
      PROVE  HasRun(u, h[i].version, -h[i].start)
  <2>1. h[i].version \in Version /\ h[i].start \in Int
    BY <1>1, HistoryEntries
  <2>2. ranFrom[u][h[i].version] # Never /\ ranFrom[u][h[i].version] <= h[i].start
    BY <1>1 DEF TrueOf
  <2>3. ranFrom[u][h[i].version] \in Int
    BY <2>1, <2>2, HorizonAssumption DEF TruthInv, RanOK, Stamp
  <2>4. \A a, b \in Int : a <= b => -a >= -b
    OBVIOUS
  <2> QED
    BY <2>1, <2>2, <2>3, <2>4 DEF HasRun
<1>2. ASSUME NEW d \in Deployment
      PROVE  DOMAIN reports[d] \subseteq Deployment /\ DOMAIN fetched[d] \subseteq Deployment
  BY <1>2, KnownAreDeployed
<1> QED
  BY <1>1, <1>2 DEF TInv, ReportsOK, TruthInv, ReportsTruthful

LEMMA HistoryInvariant == HistorySpec => [](TInv /\ TruthInv /\ DecidedOK)
<1> DEFINE HInv == TInv /\ TruthInv /\ DecidedOK
<1>1. HistoryInit => HInv
  BY InitTInv, InitTruth DEF HistoryInit
<1>2. HInv /\ [HistoryNext]_historyVars => HInv'
  BY HowRanChanges, StepTInv, StepTruthInv, StepDecidedOK DEF TruthInv
<1> QED
  BY <1>1, <1>2, PTL DEF HistorySpec

\* No deployment believes of another what did not happen there.
THEOREM RolloutReportsTruthful == HistorySpec => []ReportsTruthful
BY HistoryInvariant, TruthIsTruthful, PTL

-----------------------------------------------------------------------------
(***************************************************************************)
(* What a deployment of a version takes.                                   *)
(***************************************************************************)

\* Only a wave of a single deployment goes without a bake time.  (Otherwise
\* NextVersion takes a version that some deployment of the wave never ran for one
\* that has been healthy there for no time at all: see RolloutUnbaked.cfg.)
BakedWaves ==
  \A c \in Config : \A p \in Positions(Content[c]) :
    LET wave == WaveAt(Content[c], p)
    IN  wave.bakeTime > 0 \/ Len(wave.deployments) <= 1

\* A version that the reports on a baked wave allow is mentioned in all of them.
LEMMA AllowedIsMentioned ==
  ASSUME NEW a \in Waves(0..Horizon), a.deployments # <<>>,
         a.bakeTime > 0 \/ Len(a.deployments) <= 1,
         NEW r, NEW v, Allows(a, r, v), NEW u \in Names(a), History(r[u])
  PROVE  /\ Mentions(r[u], v) /\ a.bakeTime \in Int
         /\ VersionHealthyDuration(r[u], v, 0) >= a.bakeTime
<1>1. a.bakeTime \in Int /\ a.deployments[1] \in Names(a)
  BY NamesOfList, HorizonAssumption
<1>2. VersionHealthyDuration(r[u], v, 0) >= a.bakeTime
  BY DEF Allows, Candidates, Baked
<1>3. CASE a.bakeTime > 0
  <2>1. r[u] \in Seq(Healthy(Version, Stamp))
    BY HistoryEntries
  <2>2. ~Mentions(r[u], v) => VersionHealthyDuration(r[u], v, 0) = 0
    BY <2>1, HealthyDuration
  <2> QED
    BY <1>1, <1>2, <1>3, <2>2
<1>4. CASE Len(a.deployments) <= 1
  <2>1. u = a.deployments[1]
    BY <1>4, NamesOfList
  <2>2. v \in Versions(r[u])
    BY <2>1 DEF Allows, Candidates
  <2> QED
    BY <1>1, <1>2, <2>2 DEF Versions, Mentions
<1> QED
  BY <1>3, <1>4

\* The wave a deployment follows is one of its configuration.
LEMMA FollowedIsBaked ==
  ASSUME BakedWaves, NEW c \in Config, NEW d \in Named[c],
         Conditions[c][d].after.deployments # <<>>
  PROVE  \/ Conditions[c][d].after.bakeTime > 0
         \/ Len(Conditions[c][d].after.deployments) <= 1
<1>1. /\ Content[c] \in Seq(Seq(Waves(0..Horizon))) /\ d \in Deployments(Content[c])
      /\ Conditions[c][d].after = DeployAfter(Content[c], d)
  BY RequiredInFamily
<1>2. PICK p \in Positions(Content[c]) : DeployAfter(Content[c], d) = WaveAt(Content[c], p)
  BY <1>1, FollowedWave
<1> QED
  BY <1>1, <1>2 DEF BakedWaves

\* A change of the deploy tag is the end of a reconcile that had decided on it.
LEMMA HowDeployChanges ==
  ASSUME TInv, DecidedOK, [Next]_vars, NEW d \in Deployment, deploy'[d] # deploy[d]
  PROVE  /\ pc[d] = "propagate" /\ d \in Named[basis[d]] /\ basis[d] \in Config
         /\ DOMAIN fetched[d] = Required(d)
         /\ Required(d) = With(d) \cup Names(After(d))
         /\ \A u \in Required(d) :
              u \in Deployment /\ History(fetched[d][u]) /\ fetched[d][u] # <<>>
         /\ After(d) \in Waves(0..Horizon)
         /\ WaveCaughtUp(With(d), BakeTimes[basis[d]], fetched[d], read[d], 0)
         /\ After(d).deployments # <<>> => Allows(After(d), fetched[d], deploy'[d])
<1>1. Propagate(d)
  BY HowValuesFlow DEF Flows
<1>2. pc[d] = "propagate" /\ deploy'[d] = Chosen(d)
  BY <1>1 DEF Propagate, TInv, WorldOK
<1>3. /\ WaveCaughtUp(With(d), BakeTimes[basis[d]], fetched[d], read[d], 0)
      /\ After(d).deployments # <<>> => Allows(After(d), fetched[d], deploy'[d])
  BY <1>2 DEF DecidedOK, Chosen
<1>4. /\ DOMAIN fetched[d] = Required(d)
      /\ \A u \in DOMAIN fetched[d] : History(fetched[d][u]) /\ fetched[d][u] # <<>>
  BY <1>2 DEF TInv, ReportsOK
<1> QED
  BY <1>2, <1>3, <1>4, BasisIs DEF TInv

\* A version is deployed only after the whole preceding wave really ran it for the
\* bake time that the reconcile went by, if waves without one are of a single
\* deployment.
THEOREM RolloutBaked == ASSUME BakedWaves PROVE HistorySpec => BakedEverywhere
<1>1. ASSUME TInv, TruthInv, DecidedOK, [Next]_vars, NEW d \in Deployment,
             deploy'[d] # deploy[d], NEW u \in Names(After(d))
      PROVE  HasRun(u, deploy'[d], After(d).bakeTime)
  <2> DEFINE h == fetched[d][u]
             v == deploy'[d]
  <2>1. /\ d \in Named[basis[d]] /\ basis[d] \in Config /\ After(d) \in Waves(0..Horizon)
        /\ u \in DOMAIN fetched[d] /\ u \in Deployment /\ History(h)
        /\ After(d).deployments # <<>> => Allows(After(d), fetched[d], v)
    BY <1>1, HowDeployChanges
  <2>2. After(d).deployments # <<>>
    BY <1>1, <2>1, NamesOfList
  <2>3. After(d).bakeTime > 0 \/ Len(After(d).deployments) <= 1
    BY <2>1, <2>2, FollowedIsBaked DEF After
  <2>4. /\ Mentions(h, v) /\ After(d).bakeTime \in Int
        /\ VersionHealthyDuration(h, v, 0) >= After(d).bakeTime
    BY <1>1, <2>1, <2>2, <2>3, AllowedIsMentioned
  <2>5. /\ TrueOf(ranFrom[u], h) /\ ranFrom[u] \in [Version -> Stamp \cup {Never}]
    BY <1>1, <2>1 DEF TruthInv, RanOK
  <2> QED
    BY <2>1, <2>4, <2>5, CreditIsRun DEF HasRun
<1>2. TInv /\ TruthInv /\ DecidedOK /\ [HistoryNext]_historyVars =>
        [\A d \in Deployment :
           deploy'[d] # deploy[d] =>
             \A u \in Names(After(d)) : HasRun(u, deploy'[d], After(d).bakeTime)]_historyVars
  BY <1>1, HowRanChanges DEF TruthInv
<1> QED
  BY <1>2, HistoryInvariant, PTL DEF HistorySpec, BakedEverywhere

\* A first wave is given a version only after every later wave of its environment
\* really ran, for its bake time, what the reconcile found running.
THEOREM RolloutFirstWaveWaits == HistorySpec => FirstWaveWaits
<1>1. ASSUME TInv, TruthInv, DecidedOK, [Next]_vars, NEW d \in Deployment,
             deploy'[d] # deploy[d], NEW u \in Named[basis[d]], FollowsWithin(basis[d], u, d)
      PROVE  HasRun(u, read[d], BakeTimes[basis[d]][u])
  <2> DEFINE h == fetched[d][u]
             c == basis[d]
  <2>1. /\ pc[d] = "propagate" /\ d \in Named[c] /\ c \in Config
        /\ DOMAIN fetched[d] = Required(d) /\ Required(d) = With(d) \cup Names(After(d))
        /\ \A x \in Required(d) :
             x \in Deployment /\ History(fetched[d][x]) /\ fetched[d][x] # <<>>
        /\ WaveCaughtUp(With(d), BakeTimes[c], fetched[d], read[d], 0)
    BY <1>1, HowDeployChanges
  <2>2. /\ With(d) = DeployWith(Content[c], d) /\ BakeTimes[c][u] \in Int
    BY <1>1, <2>1, BasisIs, HorizonAssumption DEF TInv
  <2>3. /\ Content[c] \in Seq(Seq(Waves(0..Horizon)))
        /\ d \in Deployments(Content[c]) /\ u \in Deployments(Content[c])
    BY <1>1, <2>1, RequiredInFamily
  <2>4. /\ PositionOf(Content[c], u)[1] = PositionOf(Content[c], d)[1]
        /\ PositionOf(Content[c], d)[2] = 1 /\ PositionOf(Content[c], u)[2] > 1
    BY <1>1, <2>1 DEF FollowsWithin, Places
  <2>5. u \in With(d)
    BY <2>2, <2>3, <2>4, LaterWavesAwaited
  <2>6. u \in Deployment /\ History(h) /\ h # <<>> /\ u \in DOMAIN fetched[d]
    BY <2>1, <2>5
  <2>7. /\ LastStatus(h).version = read[d]
        /\ VersionHealthyDuration(h, read[d], 0) >= BakeTimes[c][u]
    BY <2>1, <2>5 DEF WaveCaughtUp
  <2>8. Mentions(h, read[d])
    <3>1. Len(h) \in 1..Len(h)
      BY <2>6, HistoryEntries, EmptySeq
    <3> QED
      BY <2>7, <3>1 DEF LastStatus, Mentions
  <2>9. /\ TrueOf(ranFrom[u], h) /\ ranFrom[u] \in [Version -> Stamp \cup {Never}]
    BY <1>1, <2>6 DEF TruthInv, RanOK
  <2> QED
    BY <2>2, <2>6, <2>7, <2>8, <2>9, CreditIsRun DEF HasRun
<1>2. TInv /\ TruthInv /\ DecidedOK /\ [HistoryNext]_historyVars =>
        [\A d \in Deployment :
           deploy'[d] # deploy[d] =>
             \A u \in Named[basis[d]] :
               FollowsWithin(basis[d], u, d) => HasRun(u, read[d], BakeTimes[basis[d]][u])]_historyVars
  BY <1>1, HowRanChanges DEF TruthInv
<1> QED
  BY <1>2, HistoryInvariant, PTL DEF HistorySpec, FirstWaveWaits

-----------------------------------------------------------------------------
(***************************************************************************)
(* The order of versions, as long as the configuration stays.              *)
(***************************************************************************)

\* Until it is replaced for the first time, the configuration is the first one.
LEMMA HowConfigChanges ==
  ASSUME TInv, [Next]_vars, edits' = 0
  PROVE  edits = 0 /\ config' = config
<1>1. edits \in Nat
  BY ReplacementAssumption DEF TInv, WorldOK
<1>2. CASE \E c \in Config : PublishConfig(c)
  BY <1>1, <1>2 DEF PublishConfig
<1>3. CASE UNCHANGED <<config, edits>>
  BY <1>3
<1>4. Tick => UNCHANGED <<config, edits>>
  BY DEF Tick
<1>5. \A d \in Deployment : Abort(d) => UNCHANGED <<config, edits>>
  BY DEF Abort, world
<1>6. \A d \in Deployment :
        PushManifest(d) \/ Apply(d) => UNCHANGED <<config, edits>>
  BY DEF PushManifest, Apply
<1>7. \A d \in Deployment : Step(d) => UNCHANGED <<config, edits>>
  BY DEF Step, Begin, PublishStatus, SaveStatus, FetchStatus, StatusMissing, SaveReports,
         Propagate, ManifestMissing, world
<1> QED
  BY <1>2, <1>3, <1>4, <1>5, <1>6, <1>7 DEF Next, Move, vars

\* The configuration a reconcile goes by is the first one, too.
LEMMA BasisStays ==
  ASSUME TInv, [Next]_vars, edits' = 0, NEW d \in Deployment, basis[d] \in {NoConfig, config}
  PROVE  basis'[d] \in {NoConfig, config'}
<1>1. config' = config /\ basis \in [Deployment -> Family(config) \cup {NoConfig}]
  BY HowConfigChanges DEF TInv, LocalsOK
<1>2. \A e \in Deployment : Begin(e) => basis'[d] \in {basis[d], config}
  BY <1>1 DEF Begin
<1>3. \A e \in Deployment : Return(e) => basis'[d] \in {basis[d], NoConfig}
  BY <1>1 DEF Return
<1>4. Tick \/ (\E c \in Config : PublishConfig(c)) \/ UNCHANGED vars => basis' = basis
  BY DEF Tick, PublishConfig, locals, vars
<1>5. \A e \in Deployment : PushManifest(e) \/ Apply(e) => basis' = basis
  BY DEF PushManifest, Apply, locals
<1>6. \A e \in Deployment :
        Abort(e) \/ Propagate(e) \/ ManifestMissing(e) \/ (\E u \in Deployment : StatusMissing(e, u))
          => Return(e)
  BY DEF Abort, Propagate, ManifestMissing, StatusMissing
<1>7. \A e \in Deployment :
        PublishStatus(e) \/ SaveStatus(e) \/ (\E u \in Deployment : FetchStatus(e, u)) => basis' = basis
  BY DEF PublishStatus, SaveStatus, FetchStatus
<1>8. \A e \in Deployment : SaveReports(e) => Return(e) \/ basis' = basis
  BY DEF SaveReports
<1> QED
  BY <1>1, <1>2, <1>3, <1>4, <1>5, <1>6, <1>7, <1>8 DEF Next, Move, Step

\* A version that was chosen is no older than any other one the same reports allow.
LEMMA ChoiceIsNewest ==
  ASSUME NEW h, History(h), NEW m, Rising(h, m), NEW v \in Versions(h), NEW w \in Versions(h),
         LastIndex(h, w) <= LastIndex(h, v)
  PROVE  w <= v
<1> DEFINE i == LastIndex(h, w)
           j == LastIndex(h, v)
<1>1. /\ Len(h) \in Nat /\ \A k \in 1..Len(h) : h[k].version \in Nat
  BY HistoryEntries, VersionsAreNumbers
<1>2. /\ i \in 1..Len(h) /\ h[i].version = w
      /\ j \in 1..Len(h) /\ h[j].version = v
  BY <1>1, LastIndexIsLast
<1>3. i = j \/ i < j
  BY <1>2
<1> QED
  BY <1>1, <1>2, <1>3 DEF Rising

\* The versions of a deployment.
LEMMA OrderNumbers ==
  ASSUME TInv, NEW d \in Deployment
  PROVE  /\ manifest[d] \in Nat /\ deploy[d] \in Nat /\ running[d] \in Nat
         /\ status[d] \in Nat /\ read[d] \in Nat /\ deploy[d] >= 1
BY VersionsAreNumbers DEF TInv, WorldOK, LocalsOK, Unset

\* Of one step, for one deployment: the versions on their way...
LEMMA StepOrderOfVersions ==
  ASSUME TInv, DecidedOK, [Next]_vars, NEW d \in Deployment, OrderOK(d)
  PROVE  /\ deploy'[d] <= manifest'[d] /\ running'[d] <= deploy'[d]
         /\ read'[d] <= running'[d] /\ status'[d] <= running'[d]
         /\ pc'[d] # "idle" => status'[d] <= read'[d]
         /\ deploy[d] <= deploy'[d] /\ status[d] <= status'[d]
<1>1. /\ manifest[d] \in Nat /\ deploy[d] \in Nat /\ running[d] \in Nat
      /\ status[d] \in Nat /\ read[d] \in Nat
  BY OrderNumbers
<1>2. TInv' /\ Deployment' = Deployment
  BY StepTInv, WorldStep DEF TInv
<1>3. /\ manifest'[d] \in Nat /\ deploy'[d] \in Nat /\ running'[d] \in Nat
      /\ status'[d] \in Nat /\ read'[d] \in Nat
  BY <1>2, VersionsAreNumbers DEF TInv, WorldOK, LocalsOK, Unset
<1>4. /\ deploy[d] <= manifest[d] /\ running[d] <= deploy[d]
      /\ read[d] <= running[d] /\ status[d] <= running[d]
      /\ pc[d] # "idle" => status[d] <= read[d]
  BY DEF OrderOK
<1>5. Flows(d)
  BY HowValuesFlow
<1>6. deploy[d] <= deploy'[d] /\ deploy'[d] <= manifest'[d]
  <2>1. CASE deploy'[d] = deploy[d]
    BY <1>1, <1>3, <1>4, <1>5, <2>1 DEF Flows
  <2>2. CASE Propagate(d)
    <3>1. /\ pc[d] = "propagate" /\ manifest' = manifest
          /\ deploy'[d] = Chosen(d) /\ Chosen(d) <= manifest[d]
      BY <2>2 DEF Propagate, TInv, WorldOK
    <3> QED
      BY <1>1, <1>3, <1>4, <3>1 DEF OrderOK, Chosen
  <2> QED
    BY <1>5, <2>1, <2>2 DEF Flows
<1>7. running'[d] <= deploy'[d] /\ running[d] <= running'[d]
  BY <1>1, <1>3, <1>4, <1>5, <1>6 DEF Flows
<1>8. read'[d] <= running'[d] /\ status'[d] <= running'[d] /\ status[d] <= status'[d]
  BY <1>1, <1>3, <1>4, <1>5, <1>7 DEF Flows, Unset
<1>9. pc'[d] # "idle" => status'[d] <= read'[d]
  BY <1>1, <1>3, <1>4, <1>5, <1>7, <1>8 DEF Flows
<1> QED
  BY <1>6, <1>7, <1>8, <1>9

\* ... what is reported of them...
LEMMA StepOrderOfReports ==
  ASSUME TInv, DecidedOK, [Next]_vars, \A e \in Deployment : OrderOK(e), NEW d \in Deployment
  PROVE  /\ \A u \in DOMAIN reports'[d] : Rising(reports'[d][u], status'[u])
         /\ \A u \in DOMAIN fetched'[d] :
              /\ Rising(fetched'[d][u], status'[u])
              /\ u \in DOMAIN reports'[d] => Grown(reports'[d][u], fetched'[d][u])
<1> DEFINE GoodR(u) == Rising(reports'[d][u], status'[u])
           GoodF(u) == /\ Rising(fetched'[d][u], status'[u])
                       /\ u \in DOMAIN reports'[d] => Grown(reports'[d][u], fetched'[d][u])
<1>1. Deployment' = Deployment
  BY WorldStep DEF TInv
<1>2. \A u \in Deployment :
        status[u] \in Nat /\ status'[u] \in Nat /\ status[u] <= status'[u]
  <2>1. TInv'
    BY StepTInv
  <2> QED
    BY <1>1, <2>1, StepOrderOfVersions, VersionsAreNumbers DEF TInv, WorldOK, Unset
<1>3. /\ DOMAIN reports[d] \subseteq Deployment /\ DOMAIN fetched[d] \subseteq Deployment
      /\ \A u \in DOMAIN reports[d] : History(reports[d][u]) /\ Rising(reports[d][u], status[u])
      /\ \A u \in DOMAIN fetched[d] :
           /\ History(fetched[d][u]) /\ Rising(fetched[d][u], status[u])
           /\ u \in DOMAIN reports[d] => Grown(reports[d][u], fetched[d][u])
  BY KnownAreDeployed DEF TInv, ReportsOK, OrderOK
<1>4. ASSUME NEW u \in Deployment, NEW h, History(h), Rising(h, status[u])
      PROVE  Rising(h, status'[u]) /\ Rising(Aged(h), status'[u])
  BY <1>2, <1>4, RisingAged
<1>5. CASE Tick
  <2>1. /\ reports'[d] = [u \in DOMAIN reports[d] |-> Aged(reports[d][u])]
        /\ fetched'[d] = [u \in DOMAIN fetched[d] |-> Aged(fetched[d][u])]
    BY <1>5 DEF Tick, AgedReports
  <2>2. ASSUME NEW u \in DOMAIN reports'[d] PROVE GoodR(u)
    <3>1. u \in DOMAIN reports[d] /\ reports'[d][u] = Aged(reports[d][u])
      BY <2>1
    <3> QED
      BY <1>3, <1>4, <3>1
  <2>3. ASSUME NEW u \in DOMAIN fetched'[d] PROVE GoodF(u)
    <3>1. u \in DOMAIN fetched[d] /\ fetched'[d][u] = Aged(fetched[d][u])
      BY <2>1
    <3>2. Rising(fetched'[d][u], status'[u])
      BY <1>3, <1>4, <3>1
    <3>3. ASSUME u \in DOMAIN reports'[d] PROVE Grown(reports'[d][u], fetched'[d][u])
      <4>1. u \in DOMAIN reports[d] /\ reports'[d][u] = Aged(reports[d][u])
        BY <2>1, <3>3
      <4> QED
        BY <1>3, <3>1, <4>1, AgedAlike
    <3> QED
      BY <3>2, <3>3
  <2> QED
    BY <2>2, <2>3
<1>6. CASE Knows(d)
  <2>1. \A u \in DOMAIN reports'[d] : GoodR(u)
    BY <1>3, <1>4, <1>6 DEF Knows
  <2>2. CASE fetched'[d] = fetched[d]
    <3>1. ASSUME NEW u \in DOMAIN fetched[d] PROVE GoodF(u)
      <4>1. Rising(fetched'[d][u], status'[u])
        BY <1>3, <1>4, <2>2, <3>1
      <4>2. CASE reports'[d] = reports[d]
        BY <1>3, <2>2, <3>1, <4>1, <4>2
      <4>3. CASE reports'[d] = fetched[d]
        BY <1>3, <2>2, <3>1, <4>1, <4>3, SameIsGrown
      <4> QED
        BY <1>6, <4>2, <4>3 DEF Knows
    <3> QED
      BY <2>1, <2>2, <3>1
  <2>3. CASE fetched'[d] = Nothing
    BY <2>1, <2>3 DEF Nothing
  <2>4. ASSUME NEW x \in Deployment, Learns(d, x)
        PROVE  \A u \in DOMAIN fetched'[d] : GoodF(u)
    <3> DEFINE g == AppendStatus(Report(d, x), StatusOf(status[x]))
    <3>1. reports'[d] = reports[d]
      BY <1>6, <2>4 DEF Knows, Learns
    <3>2. status[x] \in Version /\ History(Report(d, x))
      BY <2>4, ReportTyped DEF TInv, WorldOK, Learns
    <3>3. Rising(Report(d, x), status[x])
      <4>1. Len(<<>>) = 0
        BY EmptySeq
      <4> QED
        BY <1>3, <4>1 DEF Report, Rising
    <3>4. History(g) /\ Rising(g, status[x]) /\ Grown(Report(d, x), g)
      BY <3>2, <3>3, AppendedHistory, RisingAppended, AppendedIsGrown
    <3>5. fetched'[d] = [u \in DOMAIN fetched[d] \cup {x} |-> IF u = x THEN g ELSE fetched[d][u]]
      BY <2>4 DEF Learns
    <3> HIDE DEF g
    <3>6. GoodF(x)
      <4>1. fetched'[d][x] = g
        BY <3>5
      <4>2. Rising(g, status'[x])
        BY <1>4, <3>4
      <4> QED
        BY <3>1, <3>4, <4>1, <4>2 DEF Report
    <3>7. ASSUME NEW u \in DOMAIN fetched[d], u # x PROVE GoodF(u)
      <4>1. fetched'[d][u] = fetched[d][u]
        BY <3>5, <3>7
      <4> QED
        BY <1>3, <1>4, <3>1, <4>1
    <3>8. DOMAIN fetched'[d] = DOMAIN fetched[d] \cup {x}
      BY <3>5
    <3> QED
      BY <3>6, <3>7, <3>8
  <2>5. \A u \in DOMAIN fetched'[d] : GoodF(u)
    BY <1>6, <2>2, <2>3, <2>4 DEF Knows
  <2> QED
    BY <2>1, <2>5
<1> QED
  BY <1>5, <1>6, HowReportsChange

\* ... what is deployed, which stays allowed by what is saved...
LEMMA StillAllowed ==
  ASSUME TInv, NEW d \in Deployment, OrderOK(d), pc[d] = "fetch",
         DOMAIN fetched[d] = Required(d), After(d).deployments # <<>>,
         NEW v, Allows(After(d), reports[d], v)
  PROVE  Allows(After(d), fetched[d], v)
<1>1. After(d) \in Waves(0..Horizon) /\ Names(After(d)) \subseteq DOMAIN fetched[d]
  BY BasisIs DEF TInv
<1>2. Names(After(d)) \subseteq DOMAIN reports[d]
  BY DEF Allows
<1>3. \A u \in Names(After(d)) :
        History(reports[d][u]) /\ History(fetched[d][u]) /\ Grown(reports[d][u], fetched[d][u])
  BY <1>1, <1>2 DEF TInv, ReportsOK, OrderOK
<1> QED
  BY <1>1, <1>3, AllowsGrown

LEMMA StepEarned ==
  ASSUME TInv, DecidedOK, [Next]_vars, edits' = 0, NEW d \in Deployment, OrderOK(d),
         d \in Named[config']
  PROVE  LET after == Conditions[config'][d].after
         IN  \/ deploy'[d] = 1
             \/ after.deployments = <<>>
             \/ Allows(after, reports'[d], deploy'[d])
<1>1. config' = config /\ config \in Config /\ d \in Named[config]
  BY HowConfigChanges DEF TInv, WorldOK
<1> DEFINE after == Conditions[config][d].after
<1>2. pc[d] # "idle" => basis[d] = config /\ After(d) = after
  BY DEF OrderOK, After, TInv, LocalsOK
<1>3. after \in Waves(0..Horizon)
  BY <1>1, RequiredInFamily
<1> HIDE DEF after
<1>4. SUFFICES ASSUME after.deployments # <<>>
               PROVE  deploy'[d] = 1 \/ Allows(after, reports'[d], deploy'[d])
  BY <1>1 DEF after
<1>5. CASE deploy'[d] # deploy[d]
  <2>1. /\ pc[d] = "propagate"
        /\ After(d).deployments # <<>> => Allows(After(d), fetched[d], deploy'[d])
    BY <1>5, HowDeployChanges
  <2>2. Propagate(d)
    BY <1>5, HowValuesFlow DEF Flows
  <2>3. reports'[d] = fetched[d]
    BY <2>1, <2>2 DEF Propagate, object, OrderOK
  <2> QED
    BY <1>2, <1>4, <2>1, <2>3
<1>6. CASE deploy'[d] = deploy[d]
  <2>1. CASE deploy[d] = 1
    BY <1>6, <2>1
  <2>2. CASE Allows(after, reports[d], deploy[d])
    <3>1. CASE Tick
      <4>1. reports'[d] = [u \in DOMAIN reports[d] |-> Aged(reports[d][u])]
        BY <3>1 DEF Tick, AgedReports
      <4>2. Names(after) \subseteq DOMAIN reports[d]
        BY <2>2 DEF Allows
      <4>3. ASSUME NEW u \in Names(after)
            PROVE  /\ u \in DOMAIN reports'[d] /\ History(reports[d][u])
                   /\ History(reports'[d][u]) /\ Grown(reports[d][u], reports'[d][u])
        <5>1. u \in DOMAIN reports[d] /\ reports'[d][u] = Aged(reports[d][u])
          BY <4>1, <4>2, <4>3
        <5>2. History(reports[d][u])
          BY <5>1 DEF TInv, ReportsOK
        <5> QED
          BY <4>1, <5>1, <5>2, AgedHistory, AgedIsGrown
      <4>4. Names(after) \subseteq DOMAIN reports'[d]
        BY <4>3
      <4>5. Allows(after, reports'[d], deploy[d])
        BY <1>3, <1>4, <2>2, <4>3, <4>4, AllowsGrown
      <4> QED
        BY <1>6, <4>5
    <3>2. CASE reports'[d] = reports[d]
      BY <1>6, <2>2, <3>2
    <3>3. CASE /\ pc[d] = "fetch" /\ DOMAIN fetched[d] = Required(d)
               /\ reports'[d] = fetched[d]
      BY <1>2, <1>4, <1>6, <2>2, <3>3, StillAllowed
    <3> QED
      BY <3>1, <3>2, <3>3, HowReportsChange DEF Knows
  <2>3. deploy[d] = 1 \/ Allows(after, reports[d], deploy[d])
    BY <1>1, <1>4 DEF OrderOK, Earned, after
  <2> QED
    BY <2>1, <2>2, <2>3
<1> QED
  BY <1>5, <1>6

\* ... and what is about to be.
LEMMA StepChoice ==
  ASSUME TInv, DecidedOK, [Next]_vars, NEW d \in Deployment, edits = 0, OrderOK(d),
         pc'[d] = "propagate"
  PROVE  reports'[d] = fetched'[d] /\ (choice'[d] # Latest => deploy'[d] <= choice'[d])
<1>1. deploy'[d] = deploy[d]
  <2>1. pc \in [Deployment -> Phase]
    BY DEF TInv, LocalsOK
  <2>2. ~Propagate(d)
    BY <2>1 DEF Propagate, Return
  <2> QED
    BY <2>2, HowValuesFlow DEF Flows
<1>2. CASE pc[d] = "propagate" /\ choice'[d] = choice[d]
  <2>1. reports[d] = fetched[d] /\ (choice'[d] # Latest => deploy'[d] <= choice'[d])
    BY <1>1, <1>2 DEF OrderOK
  <2>2. CASE Tick
    BY <2>1, <2>2 DEF Tick, AgedReports
  <2>3. CASE Knows(d)
    BY <1>2, <2>1, <2>3 DEF Knows, Learns
  <2> QED
    BY <2>2, <2>3, HowReportsChange
<1>3. CASE Decides(d)
  <2> DEFINE after == After(d)
             h == fetched[d][after.deployments[1]]
  <2>1. /\ pc[d] = "fetch" /\ DOMAIN fetched[d] = Required(d) /\ Decision(d) # NoVersion
        /\ reports'[d] = fetched'[d] /\ choice'[d] = Decision(d)
    BY <1>3 DEF Decides
  <2>2. ASSUME Decision(d) # Latest PROVE deploy[d] <= Decision(d)
    <3>1. /\ after.deployments # <<>>
          /\ Allows(after, fetched[d], Decision(d)) /\ History(h)
          /\ \A w \in Candidates(after, fetched[d], 0) : LastIndex(h, w) <= LastIndex(h, Decision(d))
      BY <2>1, <2>2, DecisionAllowed
    <3>2. Decision(d) \in Version
      BY <2>1, <2>2, DecisionTyped DEF TInv
    <3>3. basis[d] = config /\ d \in Named[config] /\ after = Conditions[config][d].after
      BY <2>1 DEF OrderOK, After, TInv, LocalsOK
    <3> HIDE DEF after, h
    <3>4. CASE deploy[d] = 1
      BY <3>2, <3>4, VersionsAreNumbers
    <3>5. CASE Allows(after, reports[d], deploy[d])
      <4>1. Allows(after, fetched[d], deploy[d])
        BY <2>1, <3>1, <3>5, StillAllowed DEF after
      <4>2. /\ deploy[d] \in Candidates(after, fetched[d], 0)
            /\ deploy[d] \in Versions(h) /\ Decision(d) \in Versions(h)
            /\ after.deployments[1] \in DOMAIN fetched[d]
        BY <3>1, <4>1 DEF Allows, Candidates, h
      <4>3. Rising(h, status[after.deployments[1]])
        BY <4>2 DEF OrderOK, h
      <4> QED
        BY <3>1, <4>2, <4>3, ChoiceIsNewest
    <3> QED
      BY <3>1, <3>3, <3>4, <3>5 DEF OrderOK, Earned
  <2> QED
    BY <1>1, <2>1, <2>2
<1> QED
  BY <1>2, <1>3, HowValuesFlow DEF Flows

LEMMA StepOrderInv ==
  ASSUME TInv, DecidedOK, OrderInv, [Next]_vars
  PROVE  OrderInv'
<1> SUFFICES ASSUME edits' = 0 PROVE \A d \in Deployment' : OrderOK(d)'
  BY DEF OrderInv
<1>1. /\ edits = 0 /\ config' = config /\ Deployment' = Deployment
      /\ \A d \in Deployment : OrderOK(d)
  BY HowConfigChanges, WorldStep DEF TInv, OrderInv
<1>2. ASSUME NEW d \in Deployment PROVE OrderOK(d)'
  <2>1. basis'[d] \in {NoConfig, config'}
    BY <1>1, BasisStays DEF OrderOK
  <2>2. /\ deploy'[d] <= manifest'[d] /\ running'[d] <= deploy'[d]
        /\ read'[d] <= running'[d] /\ status'[d] <= running'[d]
        /\ pc'[d] # "idle" => status'[d] <= read'[d]
    BY <1>1, StepOrderOfVersions
  <2>3. /\ \A u \in DOMAIN reports'[d] : Rising(reports'[d][u], status'[u])
        /\ \A u \in DOMAIN fetched'[d] :
             /\ Rising(fetched'[d][u], status'[u])
             /\ u \in DOMAIN reports'[d] => Grown(reports'[d][u], fetched'[d][u])
    BY <1>1, StepOrderOfReports
  <2>4. d \in Named[config'] => Earned(d)'
    BY <1>1, StepEarned DEF Earned
  <2>5. pc'[d] = "propagate" =>
          reports'[d] = fetched'[d] /\ (choice'[d] # Latest => deploy'[d] <= choice'[d])
    BY <1>1, StepChoice
  <2> QED
    BY <2>1, <2>2, <2>3, <2>4, <2>5 DEF OrderOK
<1> QED
  BY <1>1, <1>2

LEMMA InitOrderInv == Init => DecidedOK /\ OrderInv
<1> SUFFICES ASSUME Init PROVE DecidedOK /\ OrderInv
  OBVIOUS
<1>1. ASSUME NEW d \in Deployment
      PROVE  /\ manifest[d] = 1 /\ deploy[d] = 1 /\ running[d] = Unset /\ read[d] = Unset
             /\ status[d] = Unset /\ pc[d] = "idle" /\ basis[d] = NoConfig
             /\ DOMAIN reports[d] = {} /\ DOMAIN fetched[d] = {}
  BY <1>1 DEF Init
<1> QED
  BY <1>1 DEF DecidedOK, OrderInv, OrderOK, Earned, Unset

LEMMA OrderInvariant == Spec => [](TInv /\ DecidedOK /\ OrderInv)
<1> DEFINE OInv == TInv /\ DecidedOK /\ OrderInv
<1>1. Init => OInv
  BY InitTInv, InitOrderInv
<1>2. OInv /\ [Next]_vars => OInv'
  BY StepTInv, StepDecidedOK, StepOrderInv
<1> QED
  BY <1>1, <1>2, PTL DEF Spec

\* As long as the configuration stays, no controller takes its deployment back to
\* an older version: whatever is aborted, restarted or delayed.
THEOREM RolloutNeverBack == HistorySpec => NeverBack
<1>1. HistorySpec => Spec
  <2>1. HistoryInit => Init
    BY DEF HistoryInit
  <2>2. [HistoryNext]_historyVars => [Next]_vars
    BY DEF HistoryNext, historyVars, Next
  <2> QED
    BY <2>1, <2>2, PTL DEF HistorySpec, Spec
<1>2. TInv /\ DecidedOK /\ OrderInv /\ [HistoryNext]_historyVars =>
        [edits' = 0 => \A d \in Deployment : deploy'[d] >= deploy[d]]_historyVars
  <2> SUFFICES ASSUME TInv, DecidedOK, OrderInv, [HistoryNext]_historyVars, edits' = 0,
                      NEW d \in Deployment
               PROVE  deploy'[d] >= deploy[d]
    OBVIOUS
  <2>1. [Next]_vars
    BY DEF HistoryNext, historyVars, Next
  <2>2. OrderOK(d)
    BY <2>1, HowConfigChanges DEF OrderInv
  <2>3. deploy[d] <= deploy'[d]
    BY <2>1, <2>2, StepOrderOfVersions
  <2>4. deploy[d] \in Nat /\ deploy'[d] \in Nat
    BY <2>1, StepTInv, WorldStep, VersionsAreNumbers DEF TInv, WorldOK
  <2> QED
    BY <2>3, <2>4
<1> QED
  BY <1>1, <1>2, OrderInvariant, PTL DEF HistorySpec, NeverBack

-----------------------------------------------------------------------------
(***************************************************************************)
(* The order of deployments, as long as the configuration stays.           *)
(***************************************************************************)

\* Each wave names a deployment that no earlier one does.  (A wave without
\* deployments lets the next one take "latest", and a deployment that is named
\* twice goes by where it is named first.)
OwnDeployments ==
  \A c \in Config : \A p \in Positions(Content[c]) :
    \E x \in Names(WaveAt(Content[c], p)) : PositionOf(Content[c], x) = p

\* No deployment is ahead of one in the wave that it follows.
LEMMA NotAheadOfFollowed ==
  ASSUME BakedWaves, TInv, OrderInv, edits = 0, NEW d \in Named[config],
         NEW u \in Names(Conditions[config][d].after)
  PROVE  deploy[d] <= deploy[u]
<1> DEFINE after == Conditions[config][d].after
<1>1. config \in Config /\ Named[config] \subseteq Deployment
  BY Families DEF TInv, WorldOK, Deployment
<1>2. /\ after \in Waves(0..Horizon)
      /\ d \in Deployment /\ u \in Deployment /\ after.deployments # <<>>
  <2>1. after \in Waves(0..Horizon) /\ RequiredBy(config, d) \subseteq Named[config]
    BY <1>1, RequiredInFamily
  <2> QED
    BY <1>1, <2>1, NamesOfList DEF RequiredBy
<1>3. /\ deploy[d] \in Nat /\ deploy[u] \in Nat /\ deploy[u] >= 1
      /\ running[u] \in Nat /\ status[u] \in Nat
  BY <1>2, OrderNumbers
<1>4. status[u] <= running[u] /\ running[u] <= deploy[u]
  BY <1>2 DEF OrderInv, OrderOK
<1>5. deploy[d] = 1 \/ Allows(after, reports[d], deploy[d])
  BY <1>2 DEF OrderInv, OrderOK, Earned
<1>6. CASE deploy[d] = 1
  BY <1>3, <1>6
<1>7. CASE Allows(after, reports[d], deploy[d])
  <2>1. u \in DOMAIN reports[d]
    BY <1>7 DEF Allows
  <2>2. History(reports[d][u]) /\ Rising(reports[d][u], status[u])
    BY <1>2, <2>1 DEF TInv, ReportsOK, OrderInv, OrderOK
  <2>3. Mentions(reports[d][u], deploy[d])
    BY <1>1, <1>2, <1>7, <2>2, FollowedIsBaked, AllowedIsMentioned
  <2>4. deploy[d] <= status[u]
    BY <2>2, <2>3 DEF Mentions, Rising
  <2> QED
    BY <1>3, <1>4, <2>4
<1> QED
  BY <1>5, <1>6, <1>7

\* A version reaches the deployments in the order of the configuration as long as
\* it stays, if waves without a bake time are of a single deployment and each wave
\* has a deployment of its own.
THEOREM RolloutNeverAhead == ASSUME BakedWaves, OwnDeployments PROVE Spec => []NeverAhead
<1>1. ASSUME TInv, OrderInv PROVE NeverAhead
  <2> SUFFICES ASSUME edits = 0
               PROVE  \A d, u \in Named[config] :
                        Precedes(Places[config][u], Places[config][d]) => deploy[d] <= deploy[u]
    BY DEF NeverAhead
  <2> DEFINE c == Content[config]
             Behind(d, u) == Precedes(PositionOf(c, u), PositionOf(c, d)) /\ ~(deploy[d] <= deploy[u])
             P == {p \in Positions(c) : \E d, u \in Named[config] : PositionOf(c, d) = p /\ Behind(d, u)}
  <2>1. config \in Config /\ Named[config] \subseteq Deployment
    BY <1>1, Families DEF TInv, WorldOK, Deployment
  <2>2. /\ \A d \in Named[config] : d \in Deployments(c) /\ deploy[d] \in Nat
        /\ \A d \in Named[config] : Places[config][d] = PositionOf(c, d)
    BY <1>1, <2>1, OrderNumbers DEF Named, Places
  <2>3. \A d \in Named[config] :
          /\ c \in Seq(Seq(Waves(0..Horizon))) /\ PositionOf(c, d) \in Positions(c)
          /\ Conditions[config][d].after = DeployAfter(c, d)
    BY <2>1, <2>2, RequiredInFamily, PlaceOfDeployment
  <2>4. P = {}
    <3> SUFFICES ASSUME P # {} PROVE FALSE
      OBVIOUS
    <3>1. c \in Seq(Seq(Waves(0..Horizon)))
      BY <2>3
    <3>2. PICK p \in P : \A q \in P : ~Precedes(q, p)
      BY <3>1, FirstPosition
    <3>3. PICK d \in Named[config], u \in Named[config] : PositionOf(c, d) = p /\ Behind(d, u)
      BY <3>2
    <3>4. PICK q \in Positions(c) :
            /\ DeployAfter(c, d) = WaveAt(c, q) /\ Precedes(q, p)
            /\ \A x \in Positions(c) : Precedes(x, p) => ~Precedes(q, x)
      BY <2>2, <2>3, <3>1, <3>3, FollowedWave
    <3>5. \A x \in Names(WaveAt(c, q)) : deploy[d] <= deploy[x] /\ x \in Named[config]
      BY <1>1, <2>1, <2>3, <3>3, <3>4, NotAheadOfFollowed DEF Named, Deployments
    <3>6. PositionOf(c, u) # q
      BY <2>2, <3>1, <3>3, <3>5, PlaceOfDeployment
    <3>7. Precedes(PositionOf(c, u), q)
      <4>1. ~Precedes(q, PositionOf(c, u)) /\ PositionOf(c, u) \in Positions(c)
        BY <2>3, <3>3, <3>4
      <4>2. \A x \in Positions(c) : x = <<x[1], x[2]>> /\ x[1] \in Int /\ x[2] \in Int
        BY <3>1, PositionsAreIn
      <4> QED
        BY <3>6, <4>1, <4>2 DEF Precedes
    <3>8. PICK x \in Names(WaveAt(c, q)) : PositionOf(c, x) = q
      BY <2>1 DEF OwnDeployments
    <3>9. deploy[x] <= deploy[u]
      BY <3>2, <3>4, <3>5, <3>7, <3>8
    <3>10. deploy[d] \in Nat /\ deploy[x] \in Nat /\ deploy[u] \in Nat
      BY <2>2, <3>3, <3>5
    <3> QED
      BY <3>3, <3>5, <3>9, <3>10
  <2> QED
    BY <2>2, <2>3, <2>4
<1> QED
  BY <1>1, OrderInvariant, PTL

=============================================================================
