-------------------------- MODULE ReleasePromotion ---------------------------
(***************************************************************************)
(* Reconcile of internal/controller/promotion/releasepromotion_controller  *)
(* .go for one ReleasePromotion: the first tag of the releases repository  *)
(* is copied to the tag latest of the target repository.  CI pushes and    *)
(* deletes tags between the calls, registries fail for a while or for good,*)
(* and the object is edited or deleted.  Cache, work queue and conflicts   *)
(* are those of Reconciler.                                                *)
(***************************************************************************)
EXTENDS Naturals

CONSTANTS
  MaxTag,        \* bound on the tags; their order is that of the registry's list
  Value,         \* artifacts
  Text,          \* texts of errors
  None,
  MaxChanges,    \* bound on what others change
  MaxFailures    \* bound on failed calls and restarts

ASSUME BoundAssumption == MaxTag \in Nat /\ MaxChanges \in Nat /\ MaxFailures \in Nat

Tag == 1..MaxTag
Reason == {"ListTagsFailed", "ArtifactPromotionFailed"}

ASSUME NoneAssumption == None \notin Value \cup Text \cup Reason

\* The condition Available: unset, or False with a reason and a message.
NotAvailable == [reason : Reason, text : Text]
Unset == [reason |-> None, text |-> None]
Object == [protocol : {"oci", "s3"}, available : NotAvailable \cup {Unset}]
Absent == [protocol |-> "absent", available |-> Unset]

\* The lasting failure of a registry: the reason that the calls it breaks give,
\* and the texts they may show, not always the same.
Fault == [reason : Reason, texts : SUBSET Text \ {{}}]
NoFault == [reason |-> None, texts |-> {}]

VARIABLES
  (* The environment *)
  releases,    \* what the releases repository holds under each tag
  target,      \* what the target repository holds under latest
  fault,       \* the lasting failure of a registry, if any
  (* The API server, the cache and the work queue: see Reconciler *)
  object, cache, lagging, queued, delayed,
  (* The reconcile *)
  pc,
  copy,        \* its local "releasePromotion"
  stale,
  first,       \* releases[0]
  pulled,      \* the artifact it has read
  (* History and bounds *)
  finished,    \* the protocol of the last reconcile, if that met no error
  changes, failures

environment == <<releases, fault, changes>>
server == <<object, cache, lagging>>
local == <<pc, copy, stale, first, pulled>>
vars == <<environment, target, server, queued, delayed, local, finished, failures>>

TypeOK ==
  /\ releases \in [Tag -> Value \cup {None}]
  /\ target \in Value \cup {None}
  /\ fault \in Fault \cup {NoFault}
  /\ object \in Object \cup {Absent} /\ cache \in Object \cup {Absent}
  /\ copy \in Object \cup {Absent}
  /\ lagging \in BOOLEAN /\ queued \in BOOLEAN /\ delayed \in BOOLEAN
  /\ pc \in {"idle", "list", "pull", "push", "save"}
  /\ stale \in BOOLEAN /\ finished \in {"oci", "s3", "absent", None}
  /\ first \in 0..MaxTag
  /\ pulled \in Value \cup {None}
  /\ pc \in {"list", "pull", "push", "save"} => copy # Absent
  /\ changes \in 0..MaxChanges /\ failures \in 0..MaxFailures

Init ==
  /\ releases \in [Tag -> Value \cup {None}]
  /\ target = None /\ fault = NoFault
  /\ \E p \in {"oci", "s3"} : object = [protocol |-> p, available |-> Unset]
  /\ cache = object /\ lagging = FALSE
  /\ queued = TRUE /\ delayed = FALSE
  /\ pc = "idle" /\ copy = Absent /\ stale = FALSE /\ first = 0 /\ pulled = None
  /\ finished = None /\ changes = 0 /\ failures = 0

-----------------------------------------------------------------------------
(***************************************************************************)
(* The environment, the cache and the work queue.                          *)
(***************************************************************************)

Change ==
  /\ changes < MaxChanges
  /\ changes' = changes + 1
  /\ UNCHANGED <<target, cache, queued, delayed, pc, copy, first, pulled, finished, failures>>

\* CI pushes a tag, new or not, or somebody deletes one.
ReleasesChange(t, v) ==
  /\ Change
  /\ v # releases[t]
  /\ releases' = [releases EXCEPT ![t] = v]
  /\ UNCHANGED <<fault, object, lagging, stale>>

FaultChanges(f) ==
  /\ Change
  /\ f # fault
  /\ fault' = f
  /\ UNCHANGED <<releases, object, lagging, stale>>

\* A user edits the protocol, or deletes the object.
ObjectChanges(o) ==
  /\ Change
  /\ object # Absent /\ o # object
  /\ (o = Absent) \/ (o.available = object.available)
  /\ object' = o
  /\ lagging' = TRUE
  /\ stale' = (pc # "idle")
  /\ UNCHANGED <<releases, fault>>

\* The watch delivers the object or its deletion and the handler adds the key.
Deliver ==
  /\ lagging
  /\ cache' = object
  /\ lagging' = FALSE
  /\ queued' = TRUE
  /\ UNCHANGED <<environment, target, object, delayed, local, finished, failures>>

TimerEnds ==
  /\ delayed
  /\ delayed' = FALSE
  /\ queued' = TRUE
  /\ UNCHANGED <<environment, target, server, local, finished, failures>>

\* The resynchronisation adds the keys of the objects in the cache.
Resync ==
  /\ cache # Absent
  /\ ~queued
  /\ queued' = TRUE
  /\ UNCHANGED <<environment, target, server, delayed, local, finished, failures>>

Restart ==
  /\ failures < MaxFailures
  /\ failures' = failures + 1
  /\ cache' = object /\ lagging' = FALSE
  /\ queued' = (object # Absent) /\ delayed' = FALSE
  /\ pc' = "idle" /\ copy' = Absent /\ stale' = FALSE /\ first' = 0 /\ pulled' = None
  /\ finished' = None
  /\ UNCHANGED <<environment, target, object>>

-----------------------------------------------------------------------------
(***************************************************************************)
(* Reconcile.                                                              *)
(***************************************************************************)

Works == UNCHANGED failures
Hiccup == failures < MaxFailures /\ failures' = failures + 1

Goto(phase) == pc' = phase /\ UNCHANGED <<delayed, stale, finished>>

Leave ==
  /\ pc' = "idle" /\ copy' = Absent /\ stale' = FALSE /\ first' = 0 /\ pulled' = None

\* An empty result: the next reconcile waits for an event or a resync.
Done == Leave /\ finished' = copy.protocol /\ UNCHANGED delayed

\* An error, or a panic that controller-runtime makes one: with backoff.
Retry == Leave /\ finished' = None /\ delayed' = TRUE

Begin_FaultyNotFoundIgnored ==
  /\ pc = "idle"
  /\ queued
  /\ queued' = FALSE
  /\ pc' = "list"
  /\ copy' = cache
  /\ stale' = lagging
  /\ UNCHANGED <<environment, target, server, delayed, first, pulled, finished, failures>>

\* A worker takes the key, and Get reads the cache.
Begin ==
  /\ pc = "idle"
  /\ queued
  /\ queued' = FALSE
  /\ cache # Absent
  /\ pc' = "list"
  /\ copy' = cache
  /\ stale' = lagging
  /\ UNCHANGED <<environment, target, server, delayed, first, pulled, finished, failures>>

NotFound_FaultyError ==
  /\ pc = "idle"
  /\ queued
  /\ queued' = FALSE
  /\ cache = Absent
  /\ Retry
  /\ UNCHANGED <<environment, target, server, failures>>

\* The object is gone.
NotFound ==
  /\ pc = "idle"
  /\ queued
  /\ queued' = FALSE
  /\ cache = Absent
  /\ Done
  /\ UNCHANGED <<environment, target, server, failures>>

SetNotAvailable_FaultyReasonOnly(reason, text) ==
  IF copy.available.reason = reason
  THEN Retry
  ELSE /\ copy' = [copy EXCEPT !.available = [reason |-> reason, text |-> text]]
       /\ Goto("save") /\ UNCHANGED <<first, pulled>>

\* SetStatusCondition: with nothing changed the update is left out.
SetNotAvailable(reason, text) ==
  LET c == [reason |-> reason, text |-> text]
  IN  IF copy.available = c
      THEN Retry
      ELSE copy' = [copy EXCEPT !.available = c] /\ Goto("save") /\ UNCHANGED <<first, pulled>>

\* A call fails because the registry does, or just this once.
CallFails(reason) ==
  \/ /\ fault.reason = reason
     /\ Works
     /\ \E text \in fault.texts : SetNotAvailable(reason, text)
  \/ Hiccup /\ \E text \in Text : SetNotAvailable(reason, text)

Answers(reason) == fault.reason # reason /\ Works

Listed == {t \in Tag : releases[t] # None}

\* The listing resets the condition before the copy is tried.
ListTags_FaultyReset ==
  /\ pc = "list"
  /\ Answers("ListTagsFailed")
  /\ \/ /\ copy.protocol = "oci"
        /\ \E t \in Listed : (\A u \in Listed : t <= u) /\ first' = t
        /\ ~stale
        /\ copy' = [copy EXCEPT !.available = Unset]
        /\ object' = copy'
        /\ lagging' = (lagging \/ object # object')
        /\ Goto("pull")
        /\ UNCHANGED pulled
     \/ copy.protocol # "oci" /\ Done /\ UNCHANGED <<object, lagging>>
  /\ UNCHANGED <<environment, target, cache, queued>>

\* ListTags, and the first tag if the protocol is oci; nothing is done for s3.
ListTags ==
  /\ pc = "list"
  /\ Answers("ListTagsFailed")
  /\ \/ /\ copy.protocol = "oci"
        /\ \E t \in Listed : (\A u \in Listed : t <= u) /\ first' = t
        /\ Goto("pull")
        /\ UNCHANGED <<copy, pulled>>
     \/ copy.protocol # "oci" /\ Done
  /\ UNCHANGED <<environment, target, server, queued>>

\* releases[0] of an empty list.
ListIsEmpty ==
  /\ pc = "list"
  /\ Answers("ListTagsFailed")
  /\ copy.protocol = "oci"
  /\ Listed = {}
  /\ Retry
  /\ UNCHANGED <<environment, target, server, queued>>

ListTagsFails ==
  /\ pc = "list"
  /\ CallFails("ListTagsFailed")
  /\ UNCHANGED <<environment, target, server, queued>>

\* Copy reads the artifact that is under the tag by now...
Pull ==
  /\ pc = "pull"
  /\ releases[first] # None
  /\ Answers("ListTagsFailed")
  /\ pulled' = releases[first]
  /\ Goto("push")
  /\ UNCHANGED <<environment, target, server, queued, copy, first>>

\* Promote only what has not been promoted before.
Push_FaultyOnce ==
  /\ pc = "push"
  /\ Answers("ArtifactPromotionFailed")
  /\ target' = IF target = None THEN pulled ELSE target
  /\ Done
  /\ UNCHANGED <<environment, server, queued>>

\* ... and writes it.
Push ==
  /\ pc = "push"
  /\ Answers("ArtifactPromotionFailed")
  /\ target' = pulled
  /\ Done
  /\ UNCHANGED <<environment, server, queued>>

\* The tag is gone, the registry of the releases fails, or that of the target,
\* before or after it has carried out the push.
CopyFails ==
  /\ \/ /\ pc = "pull"
        /\ releases[first] = None \/ fault.reason = "ListTagsFailed"
        /\ Works
        /\ \E text \in Text : SetNotAvailable("ArtifactPromotionFailed", text)
        /\ UNCHANGED target
     \/ /\ pc \in {"pull", "push"}
        /\ CallFails("ArtifactPromotionFailed")
        /\ target' \in {target} \cup (IF pc = "push" THEN {pulled} ELSE {})
  /\ UNCHANGED <<environment, server, queued>>

Save_FaultyNoError ==
  /\ pc = "save"
  /\ \/ ~stale /\ Works /\ object' = copy /\ lagging' = TRUE
     \/ stale /\ Works /\ UNCHANGED <<object, lagging>>
     \/ Hiccup /\ UNCHANGED <<object, lagging>>
     \/ ~stale /\ Hiccup /\ object' = copy /\ lagging' = TRUE
  /\ Leave /\ finished' = None /\ UNCHANGED delayed
  /\ UNCHANGED <<environment, target, cache, queued>>

\* Nobody looks at the error of Status().Update: the one that led here is
\* returned.
Save ==
  /\ pc = "save"
  /\ \/ ~stale /\ Works /\ object' = copy /\ lagging' = TRUE
     \/ stale /\ Works /\ UNCHANGED <<object, lagging>>
     \/ Hiccup /\ UNCHANGED <<object, lagging>>
     \/ ~stale /\ Hiccup /\ object' = copy /\ lagging' = TRUE
  /\ Retry
  /\ UNCHANGED <<environment, target, cache, queued>>

Reconcile ==
  \/ Begin \/ NotFound
  \/ ListTags \/ ListIsEmpty \/ ListTagsFails
  \/ Pull \/ Push \/ CopyFails \/ Save

Next ==
  \/ \E t \in Tag, v \in Value \cup {None} : ReleasesChange(t, v)
  \/ \E f \in Fault \cup {NoFault} : FaultChanges(f)
  \/ \E o \in Object \cup {Absent} : ObjectChanges(o)
  \/ Deliver \/ TimerEnds \/ Resync \/ Restart
  \/ Reconcile

\* As in Reconciler.
Fairness == WF_vars(Reconcile) /\ WF_vars(Deliver) /\ WF_vars(TimerEnds) /\ WF_vars(Resync)

Spec == Init /\ [][Next]_vars /\ Fairness

-----------------------------------------------------------------------------
(***************************************************************************)
(* Properties.                                                             *)
(***************************************************************************)

\* The reconciler is at rest - nothing running, queued, on a timer or on its way
\* - only if its last attempt succeeded, for the protocol that the spec names by
\* now, and for oci with an artifact in the target: no error, panic, lost update,
\* edit or restart in between leaves it waiting for nothing.
RestsOnSuccess ==
  pc = "idle" /\ object # Absent /\ ~queued /\ ~delayed /\ ~lagging =>
    /\ finished = object.protocol
    /\ finished = "oci" => target # None

\* In the end latest of the target is the artifact of the first release, though
\* tags are pushed, moved and deleted between the listing and the copy.
Promoted ==
  <>[](\A t \in Listed :
         /\ \A u \in Listed : t <= u
         /\ object.protocol = "oci" /\ fault = NoFault
         => target = releases[t])

\* A registry that keeps failing is told in the condition, with the reason and
\* a text of that failure and not of an earlier one.
FailureTold ==
  <>[](/\ object # Absent
       /\ fault # NoFault
       /\ fault.reason = "ListTagsFailed" \/ (object.protocol = "oci" /\ Listed # {})
       => /\ object.available.reason = fault.reason
          /\ object.available.text \in fault.texts)

\* A deleted object is left in peace: its key does not come back from the queue.
DeletedRests == <>[](object = Absent => pc = "idle" /\ ~queued /\ ~delayed)

\* A failure that lasts and always shows the same text does not keep the
\* reconciler busy with its own writes.  (One whose text varies does: every other
\* text is a change of the object, which wakes the reconciler.)
Steady == \A t, u \in fault.texts : t = u

Settles == <>[][Steady => object' = object]_object

=============================================================================
