-------------------------- MODULE ReconcilerProofs ---------------------------
(***************************************************************************)
(* The safety of Reconciler for any number of versions, changes, failures  *)
(* and restarts, any required deployments, texts and disturbance.          *)
(***************************************************************************)
EXTENDS Reconciler, TLAPS

\* The two halves of TypeOK.
FlagsOK ==
  /\ config \in BOOLEAN /\ present \in BOOLEAN
  /\ lagging \in BOOLEAN /\ queued \in BOOLEAN /\ delayed \in BOOLEAN
  /\ stale \in BOOLEAN /\ outdated \in BOOLEAN /\ swallowed \in BOOLEAN

DataOK ==
  /\ deployed \in Version /\ others \in [Required -> MaybeVersion]
  /\ status \in MaybeVersion /\ deploy \in MaybeVersion
  /\ object \in Object /\ cache \in Object /\ copy \in Object
  /\ pc \in Phase
  /\ read \in MaybeVersion
  /\ changes \in 0..MaxChanges /\ failures \in 0..MaxFailures

\* A copy that was stale from the start is stale, only a running reconcile has
\* one, and whoever made a copy stale has left an event that leads to another
\* reconcile.
StaleIsNoticed ==
  /\ outdated => stale /\ pc # "idle"
  /\ stale => lagging \/ queued

\* What the copy has in common with the object, phase by phase: nobody else
\* writes what they share.
CopyOnRecord ==
  /\ pc = "version" => object = copy
  /\ pc \in {"saveReady", "publish", "saveStatus", "fetch", "saveReports", "propagate"} =>
       copy.ready = Holds
  /\ pc = "propagate" => object.seen = copy.seen

\* The inductive invariant.
IInv ==
  /\ TypeOK
  /\ StaleIsNoticed
  /\ CopyOnRecord
  /\ StaleReadsStop
  /\ ReadyOnRecord
  /\ NeverForgotten

-----------------------------------------------------------------------------

\* The values of a condition are conditions.
LEMMA ConditionsTyped ==
  /\ Unknown \in Condition /\ Holds \in Condition
  /\ \A f \in FailureReason : \A t \in Texts(f) : [says |-> f, text |-> t] \in Condition
  /\ \A d \in Required : \A t \in Texts(d) :
       [says |-> "StatusesFetchFailed", text |-> t] \in Condition
<1>1. Unknown \in Condition /\ Holds \in Condition
  BY DEF Unknown, Holds, Condition
<1>2. \A f \in Failure : \A t \in Texts(f) : t \in UNION {Texts(g) : g \in Failure}
  OBVIOUS
<1>3. FailureReason \subseteq Failure /\ Required \subseteq Failure
  BY DEF Failure
<1> QED
  BY <1>1, <1>2, <1>3 DEF Condition

\* What Reconcile writes into a well-typed object keeps it well typed.
LEMMA ObjectTyped ==
  ASSUME NEW o \in Object, NEW v \in MaybeVersion
  PROVE  /\ \A c \in Condition : [o EXCEPT !.ready = c] \in Object
         /\ \A c \in Condition : [o EXCEPT !.fetched = c] \in Object
         /\ [o EXCEPT !.conditions = TRUE] \in Object
         /\ [o EXCEPT !.version = v] \in Object
         /\ \A c \in Condition : \A h \in [Required -> MaybeVersion] :
              [o EXCEPT !.fetched = c, !.seen = h] \in Object
<1>1. \A c \in Condition : [o EXCEPT !.ready = c] \in Object
  BY DEF Object
<1>2. \A c \in Condition : [o EXCEPT !.fetched = c] \in Object
  BY DEF Object
<1>3. [o EXCEPT !.conditions = TRUE] \in Object
  BY Zenon DEF Object
<1>4. [o EXCEPT !.version = v] \in Object
  BY DEF Object
<1>5. \A c \in Condition : \A h \in [Required -> MaybeVersion] :
        [o EXCEPT !.fetched = c, !.seen = h] \in Object
  BY DEF Object
<1> QED
  BY <1>1, <1>2, <1>3, <1>4, <1>5

\* So does the setting of Ready to False.
LEMMA NotReadyTyped ==
  ASSUME copy \in Object, NEW reason \in FailureReason, NotReady(reason)
  PROVE  copy' \in Object
<1>1. PICK t \in Texts(reason) : copy' = [copy EXCEPT !.ready = [says |-> reason, text |-> t]]
  BY DEF NotReady
<1>2. [says |-> reason, text |-> t] \in Condition
  BY ConditionsTyped
<1> QED
  BY <1>1, <1>2 DEF Object

\* A status update, whatever becomes of it, leaves a well-typed object.
LEMMA UpdateTyped ==
  ASSUME DataOK, Updated \/ NotUpdated
  PROVE  object' \in Object /\ failures' \in 0..MaxFailures
BY BoundAssumption DEF DataOK, Updated, NotUpdated, Works, Fails

\* The object as it is created is well typed.
LEMMA NewTyped == New \in Object
BY ConditionsTyped DEF New, Nothing, Object, MaybeVersion, None

\* The type invariant in two halves: flags for one prover, data for the other.
LEMMA Halves == TypeOK <=> FlagsOK /\ DataOK
BY DEF TypeOK, FlagsOK, DataOK

\* The invariant holds at the start.
LEMMA InitIInv == Init => IInv
<1> SUFFICES ASSUME Init PROVE IInv
  OBVIOUS
<1> USE BoundAssumption DEF Init, None, Version, MaybeVersion
<1>1. FlagsOK
  BY DEF FlagsOK
<1>2. DataOK
  BY NewTyped DEF DataOK, Phase, Nothing
<1>3. TypeOK
  BY <1>1, <1>2, Halves
<1>4. StaleIsNoticed /\ CopyOnRecord
  BY DEF StaleIsNoticed, CopyOnRecord
<1>5. StaleReadsStop /\ ReadyOnRecord /\ NeverForgotten
  BY DEF StaleReadsStop, Acting, ReadyOnRecord, NeverForgotten
<1> QED
  BY <1>3, <1>4, <1>5 DEF IInv

\* Every step keeps the flags Boolean.
LEMMA FlagsStep ==
  ASSUME FlagsOK, Next
  PROVE  FlagsOK'
<1> USE DEF FlagsOK, environment, registry, queue, local, Change, Fails,
      Works, Updated, NotUpdated, Goto, Leave, Requeue, ReturnEmpty, NotReady,
      Compare
<1>1. CASE ConfigChanges \/ VersionObjectChanges \/ SpecEdited
  BY <1>1 DEF ConfigChanges, VersionObjectChanges, SpecEdited
<1>2. CASE Deliver \/ TimerEnds \/ Resync \/ Restart \/ Begin
  BY <1>2 DEF Deliver, TimerEnds, Resync, Restart, Begin
<1>3. CASE BackendFails \/ ReadConfig \/ ConfigMissing \/ VersionMissing \/
      FetchStatus \/ FetchFails \/ PublishStatus \/ Propagate
  <2>1. CASE BackendFails \/ ConfigMissing \/ VersionMissing
    BY <2>1 DEF BackendFails, ConfigMissing, VersionMissing
  <2>2. CASE ReadConfig
    BY <2>2 DEF ReadConfig
  <2>3. CASE FetchStatus
    BY <2>3 DEF FetchStatus
  <2>4. CASE FetchFails
    BY <2>4 DEF FetchFails
  <2>5. CASE PublishStatus \/ Propagate
    BY <2>5 DEF PublishStatus, Propagate
  <2> QED
    BY <1>3, <2>1, <2>2, <2>3, <2>4, <2>5
<1>4. CASE SaveNotReady \/ SaveNotFetched \/ PublishFails \/ PropagateFails
  <2>1. CASE SaveNotReady
    BY <2>1 DEF SaveNotReady
  <2>2. CASE SaveNotFetched
    BY <2>2 DEF SaveNotFetched
  <2>3. CASE PublishFails
    BY <2>3 DEF PublishFails
  <2>4. CASE PropagateFails
    BY <2>4 DEF PropagateFails
  <2> QED
    BY <1>4, <2>1, <2>2, <2>3, <2>4
<1>5. CASE SaveConditions
  BY <1>5 DEF SaveConditions
<1>6. CASE SaveReady
  BY <1>6 DEF SaveReady
<1>7. CASE SaveStatus
  BY <1>7 DEF SaveStatus
<1>8. CASE SaveReports
  BY <1>8 DEF SaveReports
<1>9. CASE ReadVersion
  BY <1>9 DEF ReadVersion
<1>10. ASSUME NEW v \in Version, Deployed(v) PROVE FlagsOK'
  BY <1>10 DEF Deployed, Version
<1>11. ASSUME NEW d \in Required, NEW v \in Version, OthersReport(d, v) PROVE FlagsOK'
  BY <1>11 DEF OthersReport, Version
<1> QED
  BY <1>1, <1>2, <1>3, <1>4, <1>5, <1>6, <1>7, <1>8, <1>9, <1>10, <1>11 DEF
     Next, Reconcile

\* Every step keeps the data well typed.
LEMMA DataStep ==
  ASSUME DataOK, Next
  PROVE  DataOK'
<1> USE BoundAssumption DEF DataOK, Phase, MaybeVersion, None, environment,
      registry, queue, local, Change, Fails, Works, Goto, Leave, Requeue,
      ReturnEmpty, NotReady, Compare
<1>1. CASE ConfigChanges \/ VersionObjectChanges
  BY <1>1 DEF ConfigChanges, VersionObjectChanges
<1>2. CASE SpecEdited
  BY <1>2 DEF SpecEdited
<1>3. CASE Deliver \/ TimerEnds \/ Resync
  BY <1>3 DEF Deliver, TimerEnds, Resync
<1>4. CASE Restart
  BY <1>4, NewTyped DEF Restart
<1>5. CASE Begin
  BY <1>5 DEF Begin
<1>6. CASE BackendFails
  BY <1>6, NotReadyTyped DEF BackendFails, FailureReason
<1>7. CASE ReadConfig
  BY <1>7, ObjectTyped DEF ReadConfig
<1>8. CASE ConfigMissing
  BY <1>8, NotReadyTyped DEF ConfigMissing, FailureReason
<1>9. CASE SaveNotReady
  BY <1>9, UpdateTyped, NewTyped DEF SaveNotReady
<1>10. CASE SaveConditions
  BY <1>10, UpdateTyped, NewTyped DEF SaveConditions
<1>11. CASE ReadVersion
  BY <1>11, ObjectTyped, ConditionsTyped DEF ReadVersion
<1>12. CASE VersionMissing
  BY <1>12, NotReadyTyped DEF VersionMissing, FailureReason
<1>13. CASE SaveReady
  BY <1>13, UpdateTyped, NewTyped, ObjectTyped DEF SaveReady
<1>14. CASE PublishStatus
  BY <1>14 DEF PublishStatus
<1>15. CASE PublishFails
  BY <1>15, NewTyped DEF PublishFails
<1>16. CASE SaveStatus
  BY <1>16, UpdateTyped, NewTyped DEF SaveStatus
<1>17. CASE FetchStatus
  BY <1>17, ObjectTyped, ConditionsTyped DEF FetchStatus
<1>18. CASE FetchFails
  <2>0. PICK d \in Required : \E t \in Texts(d) :
          copy' = [copy EXCEPT !.fetched = [says |-> "StatusesFetchFailed", text |-> t]]
    BY <1>18 DEF FetchFails
  <2>1. PICK t \in Texts(d) :
          copy' = [copy EXCEPT !.fetched = [says |-> "StatusesFetchFailed", text |-> t]]
    BY <2>0
  <2> DEFINE c == [says |-> "StatusesFetchFailed", text |-> t]
  <2>2. c \in Condition
    BY ConditionsTyped
  <2>3. copy \in Object
    OBVIOUS
  <2>4. copy' = [copy EXCEPT !.fetched = c]
    BY <2>1
  <2> HIDE DEF c
  <2>5. copy' \in Object
    BY <2>2, <2>3, <2>4 DEF Object
  <2> QED
    BY <1>18, <2>5 DEF FetchFails
<1>19. CASE SaveNotFetched
  BY <1>19, UpdateTyped, NewTyped DEF SaveNotFetched
<1>20. CASE SaveReports
  BY <1>20, UpdateTyped, NewTyped DEF SaveReports
<1>21. CASE Propagate
  BY <1>21, NewTyped DEF Propagate, Object
<1>22. CASE PropagateFails
  BY <1>22, NewTyped DEF PropagateFails, Object
<1>23. ASSUME NEW v \in Version, Deployed(v) PROVE DataOK'
  BY <1>23 DEF Deployed, Version
<1>24. ASSUME NEW d \in Required, NEW v \in Version, OthersReport(d, v) PROVE DataOK'
  BY <1>24 DEF OthersReport, Version
<1> QED
  BY <1>1, <1>2, <1>3, <1>4, <1>5, <1>6, <1>7, <1>8, <1>9, <1>10, <1>11,
     <1>12, <1>13, <1>14, <1>15, <1>16, <1>17, <1>18, <1>19, <1>20, <1>21,
     <1>22, <1>23, <1>24 DEF Next, Reconcile

\* Every step keeps a stale copy noticed.
LEMMA StaleStep ==
  ASSUME TypeOK, StaleIsNoticed, Next
  PROVE  StaleIsNoticed'
<1> USE DEF StaleIsNoticed, environment, registry, queue, local, Change,
      Fails, Works, Updated, NotUpdated, Goto, Leave, Requeue, ReturnEmpty,
      NotReady, Compare
<1>1. CASE ConfigChanges \/ VersionObjectChanges
  BY <1>1 DEF ConfigChanges, VersionObjectChanges
<1>2. CASE SpecEdited
  <2>1. lagging' /\ outdated' = outdated /\ pc' = pc
    BY <1>2 DEF SpecEdited
  <2>2. stale' <=> pc /= "idle"
    BY <1>2, Zenon DEF SpecEdited
  <2> QED
    BY <2>1, <2>2
<1>3. CASE Deliver \/ TimerEnds \/ Resync \/ Restart \/ Begin
  BY <1>3 DEF Deliver, TimerEnds, Resync, Restart, Begin
<1>4. CASE BackendFails \/ ReadConfig \/ ConfigMissing \/ VersionMissing \/
      FetchStatus \/ FetchFails \/ PublishStatus \/ Propagate
  BY <1>4 DEF BackendFails, ReadConfig, ConfigMissing, VersionMissing,
     FetchStatus, FetchFails, PublishStatus, Propagate
<1>5. CASE SaveNotReady \/ SaveNotFetched \/ PublishFails \/ PropagateFails
  BY <1>5 DEF SaveNotReady, SaveNotFetched, PublishFails, PropagateFails
<1>6. CASE SaveConditions
  BY <1>6 DEF SaveConditions
<1>7. CASE SaveReady
  BY <1>7 DEF SaveReady
<1>8. CASE SaveStatus
  BY <1>8 DEF SaveStatus
<1>9. CASE SaveReports
  BY <1>9 DEF SaveReports
<1>10. CASE ReadVersion
  BY <1>10 DEF ReadVersion
<1>11. ASSUME NEW v \in Version, Deployed(v) PROVE StaleIsNoticed'
  BY <1>11 DEF Deployed, Version
<1>12. ASSUME NEW d \in Required, NEW v \in Version, OthersReport(d, v) PROVE StaleIsNoticed'
  BY <1>12 DEF OthersReport, Version
<1> QED
  BY <1>1, <1>2, <1>3, <1>4, <1>5, <1>6, <1>7, <1>8, <1>9, <1>10, <1>11, <1>12
     DEF Next, Reconcile

\* Every step keeps the copy in line with the object.
LEMMA RecordStep ==
  ASSUME TypeOK, CopyOnRecord, Next
  PROVE  CopyOnRecord'
<1> USE DEF CopyOnRecord, TypeOK, Object, environment, registry, queue, local,
      Change, Fails, Works, Updated, NotUpdated, Goto, Leave, Requeue,
      ReturnEmpty, NotReady, Compare
<1>1. CASE ConfigChanges \/ VersionObjectChanges \/ SpecEdited
  BY <1>1 DEF ConfigChanges, VersionObjectChanges, SpecEdited
<1>2. CASE Deliver \/ TimerEnds \/ Resync \/ Restart \/ Begin
  BY <1>2 DEF Deliver, TimerEnds, Resync, Restart, Begin
<1>3. CASE BackendFails \/ ReadConfig \/ ConfigMissing \/ VersionMissing \/
      FetchStatus \/ FetchFails \/ PublishStatus \/ Propagate
  BY <1>3 DEF BackendFails, ReadConfig, ConfigMissing, VersionMissing,
     FetchStatus, FetchFails, PublishStatus, Propagate
<1>4. CASE SaveNotReady \/ SaveNotFetched \/ PublishFails \/ PropagateFails
  BY <1>4 DEF SaveNotReady, SaveNotFetched, PublishFails, PropagateFails
<1>5. CASE SaveConditions
  BY <1>5 DEF SaveConditions
<1>6. CASE SaveReady
  BY <1>6 DEF SaveReady
<1>7. CASE SaveStatus
  BY <1>7 DEF SaveStatus
<1>8. CASE SaveReports
  BY <1>8 DEF SaveReports
<1>9. CASE ReadVersion
  BY <1>9 DEF ReadVersion
<1>10. ASSUME NEW v \in Version, Deployed(v) PROVE CopyOnRecord'
  BY <1>10 DEF Deployed, Version
<1>11. ASSUME NEW d \in Required, NEW v \in Version, OthersReport(d, v) PROVE CopyOnRecord'
  BY <1>11 DEF OthersReport, Version
<1> QED
  BY <1>1, <1>2, <1>3, <1>4, <1>5, <1>6, <1>7, <1>8, <1>9, <1>10, <1>11 DEF
     Next, Reconcile

\* No step past the first update has an outdated copy.
LEMMA OutdatedStep ==
  ASSUME TypeOK, StaleIsNoticed, StaleReadsStop, Next
  PROVE  StaleReadsStop'
<1> USE DEF StaleReadsStop, Acting, StaleIsNoticed, environment, registry,
      queue, local, Change, Fails, Works, Updated, NotUpdated, Goto, Leave,
      Requeue, ReturnEmpty, NotReady, Compare
<1>1. CASE ConfigChanges \/ VersionObjectChanges \/ SpecEdited
  BY <1>1 DEF ConfigChanges, VersionObjectChanges, SpecEdited
<1>2. CASE Deliver \/ TimerEnds \/ Resync \/ Restart \/ Begin
  BY <1>2 DEF Deliver, TimerEnds, Resync, Restart, Begin
<1>3. CASE BackendFails \/ ReadConfig \/ ConfigMissing \/ VersionMissing \/
      FetchStatus \/ FetchFails \/ PublishStatus \/ Propagate
  BY <1>3 DEF BackendFails, ReadConfig, ConfigMissing, VersionMissing,
     FetchStatus, FetchFails, PublishStatus, Propagate
<1>4. CASE SaveNotReady \/ SaveNotFetched \/ PublishFails \/ PropagateFails
  BY <1>4 DEF SaveNotReady, SaveNotFetched, PublishFails, PropagateFails
<1>5. CASE SaveConditions
  BY <1>5 DEF SaveConditions
<1>6. CASE SaveReady
  BY <1>6 DEF SaveReady
<1>7. CASE SaveStatus
  BY <1>7 DEF SaveStatus
<1>8. CASE SaveReports
  BY <1>8 DEF SaveReports
<1>9. CASE ReadVersion
  BY <1>9 DEF ReadVersion
<1>10. ASSUME NEW v \in Version, Deployed(v) PROVE StaleReadsStop'
  BY <1>10 DEF Deployed, Version
<1>11. ASSUME NEW d \in Required, NEW v \in Version, OthersReport(d, v) PROVE StaleReadsStop'
  BY <1>11 DEF OthersReport, Version
<1> QED
  BY <1>1, <1>2, <1>3, <1>4, <1>5, <1>6, <1>7, <1>8, <1>9, <1>10, <1>11 DEF
     Next, Reconcile

\* Every step keeps Ready on record.
LEMMA ReadyStep ==
  ASSUME TypeOK, CopyOnRecord, ReadyOnRecord, Next
  PROVE  ReadyOnRecord'
<1> USE DEF ReadyOnRecord, CopyOnRecord, TypeOK, Object, environment,
      registry, queue, local, Change, Fails, Works, Updated, NotUpdated, Goto,
      Leave, Requeue, ReturnEmpty, NotReady, Compare
<1>1. CASE ConfigChanges \/ VersionObjectChanges \/ SpecEdited
  BY <1>1 DEF ConfigChanges, VersionObjectChanges, SpecEdited
<1>2. CASE Deliver \/ TimerEnds \/ Resync \/ Restart \/ Begin
  BY <1>2 DEF Deliver, TimerEnds, Resync, Restart, Begin
<1>3. CASE BackendFails \/ ReadConfig \/ ConfigMissing \/ VersionMissing \/
      FetchStatus \/ FetchFails \/ PublishStatus \/ Propagate
  BY <1>3 DEF BackendFails, ReadConfig, ConfigMissing, VersionMissing,
     FetchStatus, FetchFails, PublishStatus, Propagate
<1>4. CASE SaveNotReady \/ SaveNotFetched \/ PublishFails \/ PropagateFails
  BY <1>4 DEF SaveNotReady, SaveNotFetched, PublishFails, PropagateFails
<1>5. CASE SaveConditions
  BY <1>5 DEF SaveConditions
<1>6. CASE SaveReady
  BY <1>6 DEF SaveReady
<1>7. CASE SaveStatus
  BY <1>7 DEF SaveStatus
<1>8. CASE SaveReports
  BY <1>8 DEF SaveReports
<1>9. CASE ReadVersion
  BY <1>9 DEF ReadVersion
<1>10. ASSUME NEW v \in Version, Deployed(v) PROVE ReadyOnRecord'
  BY <1>10 DEF Deployed, Version
<1>11. ASSUME NEW d \in Required, NEW v \in Version, OthersReport(d, v) PROVE ReadyOnRecord'
  BY <1>11 DEF OthersReport, Version
<1> QED
  BY <1>1, <1>2, <1>3, <1>4, <1>5, <1>6, <1>7, <1>8, <1>9, <1>10, <1>11 DEF
     Next, Reconcile

\* After every step something leads to the next reconcile.
LEMMA ForgottenStep ==
  ASSUME TypeOK, StaleIsNoticed, NeverForgotten, Next
  PROVE  NeverForgotten'
<1> USE BoundAssumption DEF NeverForgotten, StaleIsNoticed, TypeOK,
      environment, registry, queue, local, Change, Fails, Works, Updated,
      NotUpdated, Goto, Leave, Requeue, ReturnEmpty, NotReady, Compare
<1>1. CASE ConfigChanges \/ VersionObjectChanges \/ SpecEdited
  BY <1>1 DEF ConfigChanges, VersionObjectChanges, SpecEdited
<1>2. CASE Deliver \/ TimerEnds \/ Resync \/ Restart \/ Begin
  BY <1>2 DEF Deliver, TimerEnds, Resync, Restart, Begin
<1>3. CASE BackendFails \/ ReadConfig \/ ConfigMissing \/ VersionMissing \/
      FetchStatus \/ FetchFails \/ PublishStatus \/ Propagate
  BY <1>3 DEF BackendFails, ReadConfig, ConfigMissing, VersionMissing,
     FetchStatus, FetchFails, PublishStatus, Propagate
<1>4. CASE SaveNotReady \/ SaveNotFetched \/ PublishFails \/ PropagateFails
  BY <1>4 DEF SaveNotReady, SaveNotFetched, PublishFails, PropagateFails
<1>5. CASE SaveConditions
  BY <1>5 DEF SaveConditions
<1>6. CASE SaveReady
  BY <1>6 DEF SaveReady
<1>7. CASE SaveStatus
  BY <1>7 DEF SaveStatus
<1>8. CASE SaveReports
  BY <1>8 DEF SaveReports
<1>9. CASE ReadVersion
  BY <1>9 DEF ReadVersion
<1>10. ASSUME NEW v \in Version, Deployed(v) PROVE NeverForgotten'
  BY <1>10 DEF Deployed, Version
<1>11. ASSUME NEW d \in Required, NEW v \in Version, OthersReport(d, v) PROVE NeverForgotten'
  BY <1>11 DEF OthersReport, Version
<1> QED
  BY <1>1, <1>2, <1>3, <1>4, <1>5, <1>6, <1>7, <1>8, <1>9, <1>10, <1>11 DEF
     Next, Reconcile

\* Every step keeps the invariant.
LEMMA NextIInv == IInv /\ [Next]_vars => IInv'
<1> SUFFICES ASSUME IInv, [Next]_vars PROVE IInv'
  OBVIOUS
<1>1. CASE UNCHANGED vars
  BY <1>1 DEF vars, IInv, TypeOK, StaleIsNoticed, CopyOnRecord, StaleReadsStop,
     Acting, ReadyOnRecord, NeverForgotten, environment, registry, queue, local
<1>2. CASE Next
  <2>1. FlagsOK' /\ DataOK'
    BY <1>2, Halves, FlagsStep, DataStep DEF IInv
  <2>2. TypeOK'
    BY <2>1 DEF TypeOK, FlagsOK, DataOK
  <2> QED
    BY <1>2, <2>2, StaleStep, RecordStep, OutdatedStep, ReadyStep, ForgottenStep
    DEF IInv
<1> QED
  BY <1>1, <1>2

\* The invariant holds throughout.
LEMMA Inductive == Spec => []IInv
<1> QED
  BY InitIInv, NextIInv, PTL DEF Spec

\* A propagation takes what the object says was seen.
LEMMA StepSaved ==
  IInv /\ [Next]_vars =>
    (deploy' # deploy => \E d \in Required : deploy' = object.seen[d])
<1> SUFFICES ASSUME IInv, [Next]_vars, deploy' # deploy
             PROVE  \E d \in Required : deploy' = object.seen[d]
  OBVIOUS
<1>1. Propagate \/ PropagateFails
  BY DEF Next, Reconcile, vars, environment, registry, queue, local, Change, Deployed,
     OthersReport, ConfigChanges, VersionObjectChanges, SpecEdited, Deliver, TimerEnds,
     Resync, Restart, Begin, BackendFails, ReadConfig, ConfigMissing, SaveNotReady,
     SaveConditions, ReadVersion, VersionMissing, SaveReady, PublishStatus, PublishFails,
     SaveStatus, FetchStatus, FetchFails, SaveNotFetched, SaveReports
<1>2. pc = "propagate" /\ \E d \in Required : deploy' = copy.seen[d]
  BY <1>1 DEF Propagate, PropagateFails
<1> QED
  BY <1>2 DEF IInv, CopyOnRecord

-----------------------------------------------------------------------------
(***************************************************************************)
(* Theorems.                                                               *)
(***************************************************************************)

\* Object, copies, queue and phases stay what Reconcile takes them for.
THEOREM TypeCorrect == Spec => []TypeOK
<1>1. IInv => TypeOK
  BY DEF IInv
<1> QED
  BY <1>1, Inductive, PTL

\* A reconcile that began with an outdated object ends at its first update.
THEOREM StaleReadsNeverAct == Spec => []StaleReadsStop
<1>1. IInv => StaleReadsStop
  BY DEF IInv
<1> QED
  BY <1>1, Inductive, PTL

\* Nothing is published or propagated by a Propagation that is not on record as
\* ready.
THEOREM ReadyBeforeActing == Spec => []ReadyOnRecord
<1>1. IInv => ReadyOnRecord
  BY DEF IInv
<1> QED
  BY <1>1, Inductive, PTL

\* Only an update that failed for another reason than a conflict, and whose
\* error Reconcile ignores, can leave a Propagation without a next reconcile.
THEOREM NothingForgotten == Spec => []NeverForgotten
<1>1. IInv => NeverForgotten
  BY DEF IInv
<1> QED
  BY <1>1, Inductive, PTL

\* A version is propagated only on a report that the object has.
THEOREM OnlySavedReportsCount == Spec => SavedBeforeUse
<1> QED
  BY Inductive, StepSaved, PTL DEF Spec, SavedBeforeUse

=============================================================================
