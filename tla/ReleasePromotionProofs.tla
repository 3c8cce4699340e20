----------------------- MODULE ReleasePromotionProofs ------------------------
(***************************************************************************)
(* The safety of ReleasePromotion for any number of tags, artifacts, texts,*)
(* changes and failures.                                                   *)
(***************************************************************************)
EXTENDS ReleasePromotion, TLAPS

\* The two halves of TypeOK.
FlagsOK ==
  /\ lagging \in BOOLEAN /\ queued \in BOOLEAN /\ delayed \in BOOLEAN
  /\ stale \in BOOLEAN

DataOK ==
  /\ releases \in [Tag -> Value \cup {None}]
  /\ target \in Value \cup {None}
  /\ fault \in Fault \cup {NoFault}
  /\ finished \in {"oci", "s3", "absent", None}
  /\ object \in Object \cup {Absent} /\ cache \in Object \cup {Absent}
  /\ copy \in Object \cup {Absent}
  /\ pc \in {"idle", "list", "pull", "push", "save"}
  /\ first \in 0..MaxTag
  /\ pulled \in Value \cup {None}
  /\ pc \in {"list", "pull", "push", "save"} => copy # Absent
  /\ changes \in 0..MaxChanges /\ failures \in 0..MaxFailures

\* What a phase has found before: the tag it copies, and the artifact.
FoundOnTheWay ==
  /\ pc \in {"list", "pull", "push", "save"} => copy \in Object
  /\ pc \in {"pull", "push"} => first \in Tag
  /\ pc = "push" => pulled \in Value

\* What is not on its way to the cache is in it; and what a running reconcile was
\* given is current, or the key will be queued once more.
KeepsUp ==
  /\ ~lagging => cache = object
  /\ pc # "idle" /\ object # Absent /\ ~queued /\ ~lagging =>
       copy.protocol = object.protocol

\* The inductive invariant.
IInv == TypeOK /\ FoundOnTheWay /\ KeepsUp /\ RestsOnSuccess

-----------------------------------------------------------------------------

\* The conditions and objects that are built on the way.
LEMMA ObjectTyped ==
  ASSUME NEW o \in Object, NEW reason \in Reason, NEW text \in Text
  PROVE  [o EXCEPT !.available = [reason |-> reason, text |-> text]] \in Object
BY DEF Object, NotAvailable

\* A deleted object is not an object.
LEMMA AbsentIsNone == Absent \notin Object
BY DEF Absent, Object

\* The protocols there are, that of no object included.
LEMMA Protocols ==
  ASSUME NEW o \in Object \cup {Absent}
  PROVE  o.protocol \in {"oci", "s3", "absent"}
BY DEF Object, Absent

\* What the failure of a registry says, when it is a failure.
LEMMA FaultTyped ==
  ASSUME DataOK, NEW reason \in Reason, fault.reason = reason
  PROVE  fault.texts \subseteq Text
<1>1. fault # NoFault
  BY NoneAssumption DEF NoFault
<1> QED
  BY <1>1 DEF DataOK, Fault

\* A call that fails ends the reconcile, with another one to come, or has a
\* condition to save.
LEMMA FailedCall ==
  ASSUME DataOK, copy \in Object, NEW reason \in Reason,
         CallFails(reason)
           \/ (Works /\ \E text \in Text : SetNotAvailable(reason, text))
  PROVE  /\ failures' \in 0..MaxFailures
         /\ \/ Retry
            \/ /\ pc' = "save" /\ copy' \in Object
               /\ UNCHANGED <<delayed, stale, finished, first, pulled>>
<1>1. failures' \in 0..MaxFailures
  BY BoundAssumption DEF CallFails, Works, Hiccup, DataOK
<1>2. \E text \in Text : SetNotAvailable(reason, text)
  BY FaultTyped DEF CallFails
<1> QED
  BY <1>1, <1>2, ObjectTyped DEF SetNotAvailable, Goto

\* The type invariant in two halves: flags for one prover, data for the other.
LEMMA Halves == TypeOK <=> FlagsOK /\ DataOK
BY DEF TypeOK, FlagsOK, DataOK

LEMMA InitIInv == Init => IInv
<1> SUFFICES ASSUME Init PROVE IInv
  OBVIOUS
<1>1. \A p \in {"oci", "s3"} : [protocol |-> p, available |-> Unset] \in Object
  BY DEF Object
<1>2. object \in Object /\ cache = object
  BY <1>1 DEF Init
<1>3. DataOK
  BY <1>2, BoundAssumption DEF Init, DataOK
<1>4. FlagsOK
  BY DEF Init, FlagsOK
<1> QED
  BY <1>3, <1>4, Halves DEF Init, IInv, FoundOnTheWay, KeepsUp, RestsOnSuccess

\* Every step keeps the flags Boolean.
LEMMA FlagsStep ==
  ASSUME FlagsOK, [Next]_vars
  PROVE  FlagsOK'
<1> USE DEF FlagsOK, environment, server, local, Change, Leave, Retry,
      Done, Goto, SetNotAvailable, CallFails
<1>1. ASSUME \/ \E t \in Tag, v \in Value \cup {None} : ReleasesChange(t, v)
             \/ \E f \in Fault \cup {NoFault} : FaultChanges(f)
             \/ \E o \in Object \cup {Absent} : ObjectChanges(o)
      PROVE  FlagsOK'
  <2>1. /\ UNCHANGED <<queued, delayed>>
        /\ lagging' = lagging \/ lagging' = TRUE
        /\ stale' = stale \/ stale' = (pc # "idle")
    BY <1>1 DEF ReleasesChange, FaultChanges, ObjectChanges
  <2> QED
    BY <2>1
<1>2. CASE Deliver \/ TimerEnds \/ Resync \/ Restart
  BY <1>2 DEF Deliver, TimerEnds, Resync, Restart
<1>3. CASE Begin \/ NotFound
  BY <1>3 DEF Begin, NotFound
<1>4. CASE ListTags \/ ListIsEmpty \/ ListTagsFails
  BY <1>4 DEF ListTags, ListIsEmpty, ListTagsFails
<1>5. CASE Pull \/ Push \/ CopyFails
  BY <1>5 DEF Pull, Push, CopyFails
<1>6. CASE Save
  BY <1>6 DEF Save
<1>7. CASE UNCHANGED vars
  BY <1>7 DEF vars
<1> QED
  BY <1>1, <1>2, <1>3, <1>4, <1>5, <1>6, <1>7 DEF Next, Reconcile

\* Every step keeps the data well typed, and each phase at what it has found.
LEMMA DataStep ==
  ASSUME DataOK, FoundOnTheWay, [Next]_vars
  PROVE  DataOK' /\ FoundOnTheWay'
<1> USE BoundAssumption DEF DataOK, FoundOnTheWay, environment, server, local, Change, Leave
<1>1. ASSUME NEW t \in Tag, NEW v \in Value \cup {None}, ReleasesChange(t, v)
      PROVE  DataOK' /\ FoundOnTheWay'
  BY <1>1 DEF ReleasesChange
<1>2. ASSUME NEW f \in Fault \cup {NoFault}, FaultChanges(f)
      PROVE  DataOK' /\ FoundOnTheWay'
  BY <1>2 DEF FaultChanges
<1>3. ASSUME NEW o \in Object \cup {Absent}, ObjectChanges(o)
      PROVE  DataOK' /\ FoundOnTheWay'
  BY <1>3 DEF ObjectChanges
<1>4. CASE Deliver \/ TimerEnds \/ Resync
  BY <1>4 DEF Deliver, TimerEnds, Resync
<1>5. CASE Restart
  BY <1>5 DEF Restart
<1>6. CASE Begin
  BY <1>6, AbsentIsNone DEF Begin
<1>7. CASE NotFound
  BY <1>7, Protocols DEF NotFound, Done
<1>8. CASE ListTags
  BY <1>8, Protocols DEF ListTags, Answers, Works, Goto, Done, Listed, Tag
<1>9. CASE ListIsEmpty
  BY <1>9 DEF ListIsEmpty, Answers, Works, Retry
<1>10. CASE ListTagsFails
  <2>1. "ListTagsFailed" \in Reason /\ copy \in Object
    BY <1>10 DEF Reason, ListTagsFails
  <2>2. /\ failures' \in 0..MaxFailures
        /\ \/ Retry
           \/ /\ pc' = "save" /\ copy' \in Object
              /\ UNCHANGED <<delayed, stale, finished, first, pulled>>
    BY <1>10, <2>1, FailedCall DEF ListTagsFails
  <2> QED
    BY <1>10, <2>1, <2>2, AbsentIsNone DEF ListTagsFails, Retry
<1>11. CASE Pull
  BY <1>11 DEF Pull, Answers, Works, Goto, Tag
<1>12. CASE Push
  BY <1>12, Protocols DEF Push, Answers, Works, Done
<1>13. CASE CopyFails
  <2>1. /\ "ArtifactPromotionFailed" \in Reason
        /\ copy \in Object
        /\ target' \in Value \cup {None}
    BY <1>13 DEF Reason, CopyFails
  <2>2. \/ CallFails("ArtifactPromotionFailed")
        \/ Works /\ \E text \in Text : SetNotAvailable("ArtifactPromotionFailed", text)
    BY <1>13 DEF CopyFails
  <2>3. /\ failures' \in 0..MaxFailures
        /\ \/ Retry
           \/ /\ pc' = "save" /\ copy' \in Object
              /\ UNCHANGED <<delayed, stale, finished, first, pulled>>
    BY <2>1, <2>2, FailedCall
  <2> QED
    BY <1>13, <2>1, <2>3, AbsentIsNone DEF CopyFails, Retry
<1>14. CASE Save
  <2>1. copy \in Object /\ failures' \in 0..MaxFailures
    BY <1>14 DEF Save, Works, Hiccup
  <2> QED
    BY <1>14, <2>1 DEF Save, Retry
<1>15. CASE UNCHANGED vars
  BY <1>15 DEF vars
<1> QED
  BY <1>1, <1>2, <1>3, <1>4, <1>5, <1>6, <1>7, <1>8, <1>9, <1>10, <1>11, <1>12,
     <1>13, <1>14, <1>15 DEF Next, Reconcile

\* A reconcile that begins has what is in the cache, a change of the object is on
\* its way, and the end of a reconcile with an error sets a timer.
LEMMA RestStep ==
  ASSUME TypeOK, FoundOnTheWay, KeepsUp, RestsOnSuccess, [Next]_vars
  PROVE  KeepsUp' /\ RestsOnSuccess'
<1> DEFINE Goal == KeepsUp' /\ RestsOnSuccess'
<1> USE DEF KeepsUp, RestsOnSuccess, environment, server, local, Change, Leave
<1>1. ASSUME \/ \E t \in Tag, v \in Value \cup {None} : ReleasesChange(t, v)
             \/ \E f \in Fault \cup {NoFault} : FaultChanges(f)
      PROVE  Goal
  BY <1>1 DEF ReleasesChange, FaultChanges
<1>2. ASSUME NEW o \in Object \cup {Absent}, ObjectChanges(o)
      PROVE  Goal
  BY <1>2 DEF ObjectChanges
<1>3. CASE Deliver \/ TimerEnds \/ Resync
  BY <1>3 DEF Deliver, TimerEnds, Resync
<1>4. CASE Restart
  BY <1>4 DEF Restart
<1>5. CASE Begin
  BY <1>5 DEF Begin
<1>6. CASE NotFound
  BY <1>6 DEF NotFound, Done
<1>7. CASE ListTags
  <2>1. CASE Goto("pull") /\ UNCHANGED copy
    BY <1>7, <2>1 DEF ListTags, Goto
  <2>2. CASE copy.protocol # "oci" /\ Done
    BY <1>7, <2>2 DEF ListTags, Done
  <2> QED
    BY <1>7, <2>1, <2>2 DEF ListTags
<1>8. CASE ListIsEmpty
  BY <1>8 DEF ListIsEmpty, Retry
<1>9. CASE ListTagsFails \/ CopyFails
  <2>1. \/ Retry
        \/ \E c \in NotAvailable :
             /\ copy' = [copy EXCEPT !.available = c]
             /\ pc' = "save"
    <3>1. \E reason \in Reason, text \in Text : SetNotAvailable(reason, text)
      <4>1. DataOK
        BY Halves
      <4> QED
        BY <1>9, <4>1, FaultTyped DEF ListTagsFails, CopyFails, CallFails, Reason
    <3> QED
      BY <3>1 DEF SetNotAvailable, Goto, NotAvailable
  <2>2. UNCHANGED <<server, queued>> /\ pc # "idle" /\ copy \in Object
    BY <1>9 DEF ListTagsFails, CopyFails, FoundOnTheWay
  <2>3. CASE Retry
    BY <2>2, <2>3 DEF Retry
  <2>4. ASSUME NEW c \in NotAvailable, copy' = [copy EXCEPT !.available = c], pc' = "save"
        PROVE  Goal
    <3>1. copy'.protocol = copy.protocol
      BY <2>2, <2>4 DEF Object
    <3> QED
      BY <2>2, <2>4, <3>1
  <2> QED
    BY <2>1, <2>3, <2>4
<1>10. CASE Pull
  BY <1>10 DEF Pull, Goto
<1>11. CASE Push
  BY <1>11, NoneAssumption DEF Push, Done, FoundOnTheWay
<1>12. CASE Save
  BY <1>12 DEF Save, Retry
<1>13. CASE UNCHANGED vars
  BY <1>13 DEF vars
<1> QED
  BY <1>1, <1>2, <1>3, <1>4, <1>5, <1>6, <1>7, <1>8, <1>9, <1>10, <1>11, <1>12,
     <1>13 DEF Next, Reconcile

THEOREM ReleasePromotionInvariant == Spec => []IInv
<1>1. Init => IInv
  BY InitIInv
<1>2. IInv /\ [Next]_vars => IInv'
  <2> SUFFICES ASSUME IInv, [Next]_vars PROVE IInv'
    OBVIOUS
  <2>1. FlagsOK /\ DataOK
    BY Halves DEF IInv
  <2>2. FlagsOK' /\ DataOK' /\ FoundOnTheWay' /\ KeepsUp' /\ RestsOnSuccess'
    BY <2>1, FlagsStep, DataStep, RestStep DEF IInv
  <2>3. TypeOK'
    BY <2>2 DEF TypeOK, FlagsOK, DataOK
  <2> QED
    BY <2>2, <2>3 DEF IInv
<1> QED
  BY <1>1, <1>2, PTL DEF Spec

\* Object, copies and phases stay what Reconcile takes them for: no phase works
\* without an object, and only a registry's failure or nothing is in the condition.
THEOREM ReleasePromotionTypes == Spec => []TypeOK
<1>1. IInv => TypeOK
  BY DEF IInv
<1> QED
  BY <1>1, ReleasePromotionInvariant, PTL

\* Whatever fails, is edited, is lost or restarts: the reconciler rests only when
\* its last attempt succeeded for the object as it is.
THEOREM ReleasePromotionRests == Spec => []RestsOnSuccess
<1>1. IInv => RestsOnSuccess
  BY DEF IInv
<1> QED
  BY <1>1, ReleasePromotionInvariant, PTL

=============================================================================
