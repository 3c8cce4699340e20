------------------------- MODULE CachedBackendProofs -------------------------
(***************************************************************************)
(* The caches of a PropagationClient for any number of artifacts, goroutines*)
(* and backends.                                                           *)
(***************************************************************************)
EXTENDS CachedBackend, TLAPS

\* Where a fetch stands, what it fetches and what it has found go together.
FetchesOK ==
  \A c \in Call :
    /\ metadata[c] = None <=> phase[c] = "idle"
    /\ metadata[c] # None => metadata[c] \in Ref \ Owned
    /\ phase[c] = "digest" => cached[c] # None

\* A manifest that is cached is the one the registry holds.
ManifestsCurrent ==
  \A r \in Immutable : fetchCache[r] # None => Remote[r] = fetchCache[r]

\* What the client thinks it has published is what the registry holds.
PublishesCurrent ==
  \A r \in Owned : publishCache[r] # None => Remote[r] = publishCache[r]

-----------------------------------------------------------------------------
(***************************************************************************)
(* Names of artifacts.                                                     *)
(***************************************************************************)

\* Two artifacts that a client can ask for never share a path and a tag.
LEMMA TagInjective ==
  ASSUME NEW q \in Ref, NEW r \in Ref, Tag(q) = Tag(r)
  PROVE  q = r
<1> DEFINE M == ArtifactMetadata(Name, Release)
<1>1. q \in M /\ r \in M
  BY RefAssumption
<1>2. /\ q = [type |-> q.type, deployment |-> q.deployment, version |-> q.version]
      /\ r = [type |-> r.type, deployment |-> r.deployment, version |-> r.version]
      /\ q.type \in ArtifactType /\ r.type \in ArtifactType
  BY <1>1 DEF ArtifactMetadata
<1>3. Tag(q).path = Tag(r).path /\ Tag(q).tag = Tag(r).tag
  OBVIOUS
<1>4. Subpath[q.type] = Subpath[r.type] /\ q.deployment = r.deployment
  <2>1. CASE q.deployment = Unnamed /\ r.deployment = Unnamed
    BY <1>3, <2>1 DEF Tag
  <2>2. CASE q.deployment # Unnamed /\ r.deployment # Unnamed
    BY <1>3, <2>2 DEF Tag
  <2>3. CASE q.deployment = Unnamed /\ r.deployment # Unnamed
    BY <1>3, <2>3 DEF Tag
  <2>4. CASE q.deployment # Unnamed /\ r.deployment = Unnamed
    BY <1>3, <2>4 DEF Tag
  <2> QED
    BY <2>1, <2>2, <2>3, <2>4
<1>5. q.type = r.type
  BY <1>2, <1>4 DEF Subpath, ArtifactType
<1>6. q.version = r.version
  <2>1. CASE q.type = "Manifest"
    BY <1>3, <1>5, <2>1 DEF Tag
  <2>2. CASE q.type # "Manifest"
    BY <1>5, <2>2, RefAssumption
  <2> QED
    BY <2>1, <2>2
<1> QED
  BY <1>2, <1>4, <1>5, <1>6

\* What a client publishes is not immutable.
LEMMA OwnedRefs == Owned \subseteq Ref /\ \A r \in Owned : r \notin Immutable
BY RefAssumption DEF Immutable, IsImmutable

\* The registry, and what the client sees of it, after a push.
LEMMA PushedSets ==
  ASSUME TypeOK,
         NEW b \in Registry, NEW r \in Ref, NEW v \in Value, Pushed(b, r, v),
         baseUrl' = baseUrl
  PROVE  /\ registry' \in [Registry -> [Tags -> Held]]
         /\ Remote' = IF b = baseUrl THEN [Remote EXCEPT ![r] = v] ELSE Remote
<1>1. Tag(r) \in Tags /\ \A q \in Ref : Tag(q) \in Tags
  BY DEF Tags
<1>2. registry' \in [Registry -> [Tags -> Held]]
  BY <1>1 DEF TypeOK, Pushed, Held
<1>3. \A q \in Ref :
        registry'[baseUrl][Tag(q)] =
          IF b = baseUrl /\ q = r THEN v ELSE registry[baseUrl][Tag(q)]
  BY <1>1, TagInjective DEF TypeOK, Pushed
<1>4. Remote' = [q \in Ref |-> registry'[baseUrl][Tag(q)]]
  BY DEF Remote
<1>5. [Remote EXCEPT ![r] = v] =
        [q \in Ref |-> IF q = r THEN v ELSE registry[baseUrl][Tag(q)]]
  BY DEF Remote
<1> QED
  BY <1>2, <1>3, <1>4, <1>5 DEF Remote

-----------------------------------------------------------------------------
(***************************************************************************)
(* Types.                                                                  *)
(***************************************************************************)

LEMMA InitTypes == Init => TypeOK
BY DEF Init, TypeOK, Held

\* A fetch that returns, or goes on, keeps its state well typed.
LEMMA FetchTyped ==
  ASSUME TypeOK, NEW c \in Call,
         \/ \E a \in Held \cup {Error} : Return(c, a)
         \/ \E r \in Ref, p \in {"digest", "pull"} : Goto(c, r, p)
  PROVE  /\ phase' \in [Call -> {"idle", "digest", "pull"}]
         /\ metadata' \in [Call -> Ref \cup {None}]
         /\ cached' \in [Call -> Held]
         /\ answer' \in [Call -> Held \cup {Error}]
<1>1. CASE \E a \in Held \cup {Error} : Return(c, a)
  BY <1>1 DEF Return, TypeOK, Held
<1>2. CASE \E r \in Ref, p \in {"digest", "pull"} : Goto(c, r, p)
  BY <1>2 DEF Goto, TypeOK, Held
<1> QED
  BY <1>1, <1>2

\* The steps of a fetch keep the state well typed.
LEMMA FetchSteps ==
  ASSUME TypeOK, FetchesOK, NEW c \in Call,
         \/ \E r \in Ref \ Owned : Fetch(c, r)
         \/ DigestMatches(c) \/ DigestDiffers(c) \/ Pull(c) \/ PullFails(c)
  PROVE  TypeOK'
<1>1. ASSUME NEW r \in Ref \ Owned, Fetch(c, r) PROVE TypeOK'
  <2>1. fetchCache[r] \in Held
    BY DEF TypeOK
  <2> QED
    BY <1>1, <2>1, FetchTyped DEF Fetch, TypeOK, caches
<1>2. CASE DigestMatches(c)
  <2>1. cached[c] \in Held
    BY DEF TypeOK
  <2> QED
    BY <1>2, <2>1, FetchTyped DEF DigestMatches, TypeOK, caches
<1>3. CASE DigestDiffers(c)
  BY <1>3 DEF DigestDiffers, TypeOK, caches
<1>4. CASE Pull(c)
  <2> DEFINE a == Remote[metadata[c]]
  <2>1. metadata[c] \in Ref
    BY <1>4 DEF FetchesOK, Pull
  <2>2. a \in Held
    <3>1. a = registry[baseUrl][Tag(metadata[c])] /\ Tag(metadata[c]) \in Tags
      BY <2>1 DEF Remote, Tags
    <3> QED
      BY <3>1 DEF TypeOK
  <2>3. fetchCache' = [fetchCache EXCEPT ![metadata[c]] = a]
    BY <1>4 DEF Pull
  <2>4. fetchCache' \in [Ref -> Held]
    BY <2>1, <2>2, <2>3 DEF TypeOK
  <2> QED
    BY <1>4, <2>2, <2>4, FetchTyped DEF Pull, TypeOK
<1>5. CASE PullFails(c)
  BY <1>5, FetchTyped DEF PullFails, TypeOK, caches
<1> QED
  BY <1>1, <1>2, <1>3, <1>4, <1>5

\* Publishes, a new backend and a restart keep the state well typed.
LEMMA PublishSteps ==
  ASSUME TypeOK,
         \/ \E r \in Owned, v \in Value : PublishCached(r, v) \/ Publish(r, v)
         \/ \E r \in Owned, v \in Value, how \in FailedPush : PublishFails(r, v, how)
         \/ \E b \in Registry, r \in Ref, v \in Value : PushByOthers(b, r, v)
         \/ Restart \/ Move
  PROVE  TypeOK'
<1>1. ASSUME NEW r \in Owned, NEW v \in Value, PublishCached(r, v) PROVE TypeOK'
  BY <1>1 DEF PublishCached, TypeOK, Held, caches, fetches
<1>2. ASSUME NEW r \in Owned, NEW v \in Value, Publish(r, v) PROVE TypeOK'
  <2>1. registry' \in [Registry -> [Tags -> Held]]
    BY <1>2, PushedSets, OwnedRefs DEF Publish, TypeOK
  <2> QED
    BY <1>2, <2>1 DEF Publish, TypeOK, Held, fetches
<1>3. ASSUME NEW r \in Owned, NEW v \in Value, NEW how \in FailedPush,
             PublishFails(r, v, how)
      PROVE  TypeOK'
  <2>1. registry' \in [Registry -> [Tags -> Held]]
    BY <1>3, PushedSets, OwnedRefs DEF PublishFails, TypeOK
  <2> QED
    BY <1>3, <2>1 DEF PublishFails, TypeOK, Held, caches, fetches
<1>4. ASSUME NEW b \in Registry, NEW r \in Ref, NEW v \in Value, PushByOthers(b, r, v)
      PROVE  TypeOK'
  <2>1. registry' \in [Registry -> [Tags -> Held]]
    BY <1>4, PushedSets DEF PushByOthers
  <2> QED
    BY <1>4, <2>1 DEF PushByOthers, TypeOK, caches, fetches
<1>5. CASE Restart
  BY <1>5 DEF Restart, NoCache, NoFetch, TypeOK, Held
<1>6. ASSUME NEW b \in BaseUrl, SetBackend(b) PROVE TypeOK'
  BY <1>6 DEF SetBackend, TypeOK, Held, caches, fetches
<1> QED
  BY <1>1, <1>2, <1>3, <1>4, <1>5, <1>6 DEF Move

\* The steps of a fetch keep phase, metadata and cached together; nothing else
\* touches them, and a restart forgets them.
LEMMA FetchesStep ==
  ASSUME TypeOK, FetchesOK, [Next \/ Move]_vars
  PROVE  FetchesOK'
<1> USE DEF FetchesOK, TypeOK
<1>1. ASSUME NEW c \in Call, NEW r \in Ref \ Owned, Fetch(c, r) PROVE FetchesOK'
  BY <1>1, RefAssumption DEF Fetch, Goto, Return
<1>2. ASSUME NEW c \in Call, DigestMatches(c) \/ Pull(c) \/ PullFails(c)
      PROVE  FetchesOK'
  BY <1>2 DEF DigestMatches, Pull, PullFails, Return
<1>3. ASSUME NEW c \in Call, DigestDiffers(c) PROVE FetchesOK'
  BY <1>3 DEF DigestDiffers
<1>4. CASE Restart
  BY <1>4 DEF Restart, NoFetch
<1>5. CASE UNCHANGED fetches
  BY <1>5 DEF fetches
<1> QED
  BY <1>1, <1>2, <1>3, <1>4, <1>5 DEF Next, ClientNext, Move, PushByOthers,
     PublishCached, Publish, PublishFails, SetBackend, vars

-----------------------------------------------------------------------------
(***************************************************************************)
(* The caches and the registry.                                            *)
(***************************************************************************)

\* A push by somebody else spares the manifests that exist, and whatever this
\* client publishes.
LEMMA OthersSpare ==
  ASSUME TypeOK, NEW b \in Registry, NEW r \in Ref, NEW v \in Value,
         PushByOthers(b, r, v)
  PROVE  /\ \A q \in Immutable : Remote[q] # None => Remote'[q] = Remote[q]
         /\ \A q \in Owned : Remote'[q] = Remote[q]
<1>1. Remote' = IF b = baseUrl THEN [Remote EXCEPT ![r] = v] ELSE Remote
  BY PushedSets DEF PushByOthers
<1>2. r \notin Owned /\ (b = baseUrl /\ r \in Immutable => Remote[r] = None)
  BY DEF PushByOthers, Remote
<1> QED
  BY <1>1, <1>2, OwnedRefs DEF Remote, Immutable

\* Every step keeps the cached manifests current, as long as the backend stays.
LEMMA ManifestsStep ==
  ASSUME TypeOK, FetchesOK, ManifestsCurrent, [Next]_vars
  PROVE  ManifestsCurrent'
<1> USE DEF ManifestsCurrent
<1>1. ASSUME NEW b \in Registry, NEW r \in Ref, NEW v \in Value, PushByOthers(b, r, v)
      PROVE  ManifestsCurrent'
  BY <1>1, OthersSpare DEF PushByOthers, caches
<1>2. ASSUME NEW c \in Call, Pull(c) PROVE ManifestsCurrent'
  <2>1. metadata[c] \in Ref /\ Remote' = Remote
    BY <1>2 DEF Pull, FetchesOK, Remote
  <2> QED
    BY <1>2, <2>1 DEF Pull, TypeOK, Immutable
<1>3. ASSUME NEW r \in Owned, NEW v \in Value, Pushed(baseUrl, r, v),
             UNCHANGED <<baseUrl, fetchCache>>
      PROVE  ManifestsCurrent'
  <2>1. Remote' = [Remote EXCEPT ![r] = v]
    BY <1>3, PushedSets, OwnedRefs DEF TypeOK
  <2> QED
    BY <1>3, <2>1, OwnedRefs DEF Remote, Immutable
<1>4. CASE Restart
  BY <1>4 DEF Restart, NoCache, Immutable
<1>5. CASE UNCHANGED <<registry, baseUrl, fetchCache>>
  BY <1>5 DEF Remote
<1>6. ASSUME NEW c \in Call, NEW r \in Ref \ Owned, Fetch(c, r)
      PROVE  ManifestsCurrent'
  BY <1>5, <1>6 DEF Fetch, caches
<1>7. ASSUME NEW c \in Call, DigestMatches(c) \/ DigestDiffers(c) \/ PullFails(c)
      PROVE  ManifestsCurrent'
  BY <1>5, <1>7 DEF DigestMatches, DigestDiffers, PullFails, caches
<1>8. ASSUME NEW r \in Owned, NEW v \in Value, PublishCached(r, v) \/ Publish(r, v)
      PROVE  ManifestsCurrent'
  BY <1>3, <1>5, <1>8 DEF PublishCached, Publish, caches
<1>9. ASSUME NEW r \in Owned, NEW v \in Value, NEW how \in FailedPush,
             PublishFails(r, v, how)
      PROVE  ManifestsCurrent'
  BY <1>3, <1>5, <1>9 DEF PublishFails, caches
<1> QED
  BY <1>1, <1>2, <1>4, <1>5, <1>6, <1>7, <1>8, <1>9 DEF Next, ClientNext, vars, caches

\* So do the artifacts this client knows to have published, when no push is
\* carried out without the client learning of it.
LEMMA PublishesStep ==
  ASSUME FailedPush \subseteq {"refused"},
         TypeOK, PublishesCurrent, PublishedIsServed, [Next]_vars
  PROVE  PublishesCurrent' /\ PublishedIsServed'
<1> DEFINE Goal == PublishesCurrent' /\ PublishedIsServed'
<1> USE DEF PublishesCurrent, PublishedIsServed
<1>1. ASSUME NEW b \in Registry, NEW r \in Ref, NEW v \in Value, PushByOthers(b, r, v)
      PROVE  Goal
  BY <1>1, OthersSpare DEF PushByOthers, caches
<1>2. ASSUME NEW r \in Owned, NEW v \in Value, PublishCached(r, v) PROVE Goal
  <2>1. Remote' = Remote /\ v # None
    BY <1>2, RefAssumption DEF PublishCached, Remote
  <2> QED
    BY <1>2, <2>1 DEF PublishCached, TypeOK, caches
<1>3. ASSUME NEW r \in Owned, NEW v \in Value, Publish(r, v) PROVE Goal
  <2>1. Remote' = [Remote EXCEPT ![r] = v]
    BY <1>3, PushedSets, OwnedRefs DEF Publish, TypeOK
  <2> QED
    BY <1>3, <2>1, OwnedRefs DEF Publish, TypeOK, Remote
<1>4. ASSUME NEW r \in Owned, NEW v \in Value, NEW how \in FailedPush,
             PublishFails(r, v, how)
      PROVE  Goal
  <2>1. Remote' = Remote
    BY <1>4 DEF PublishFails, Remote
  <2> QED
    BY <1>4, <2>1 DEF PublishFails, TypeOK, caches
<1>5. CASE UNCHANGED <<registry, baseUrl, publishCache, acknowledged>>
  BY <1>5 DEF Remote
<1>6. CASE Restart
  BY <1>6 DEF Restart, NoCache, Remote
<1>7. ASSUME NEW c \in Call, NEW r \in Ref \ Owned, Fetch(c, r) PROVE Goal
  BY <1>5, <1>7 DEF Fetch, caches
<1>8. ASSUME NEW c \in Call,
             DigestMatches(c) \/ DigestDiffers(c) \/ Pull(c) \/ PullFails(c)
      PROVE  Goal
  BY <1>5, <1>8 DEF DigestMatches, DigestDiffers, Pull, PullFails, caches
<1> QED
  BY <1>1, <1>2, <1>3, <1>4, <1>5, <1>6, <1>7, <1>8 DEF Next, ClientNext, vars, caches

-----------------------------------------------------------------------------
(***************************************************************************)
(* The client is a store.                                                  *)
(***************************************************************************)

\* The inductive invariant, for pushes that fail without effect.
IInv == TypeOK /\ FetchesOK /\ ManifestsCurrent /\ PublishesCurrent /\ PublishedIsServed

LEMMA InitIInv == Init => IInv
<1> SUFFICES ASSUME Init PROVE IInv
  OBVIOUS
<1>1. TypeOK
  BY InitTypes
<1>2. FetchesOK /\ ManifestsCurrent /\ PublishesCurrent /\ PublishedIsServed
  BY DEF Init, FetchesOK, ManifestsCurrent, Immutable, PublishesCurrent,
     PublishedIsServed
<1> QED
  BY <1>1, <1>2 DEF IInv

\* Every step, also that of a user who edits the backend, keeps the types.
LEMMA TypesStep ==
  ASSUME TypeOK, FetchesOK, [Next \/ Move]_vars
  PROVE  TypeOK'
<1>1. CASE UNCHANGED vars
  BY <1>1 DEF vars, caches, fetches, TypeOK
<1>2. CASE Next \/ Move
  BY <1>2, FetchSteps, PublishSteps DEF Next, ClientNext
<1> QED
  BY <1>1, <1>2

LEMMA StepIInv ==
  ASSUME FailedPush \subseteq {"refused"}, IInv, [Next]_vars
  PROVE  IInv'
BY TypesStep, FetchesStep, ManifestsStep, PublishesStep DEF IInv

\* A fetch asks the store, or is answered at once from the cache with the
\* manifest that the store holds.
LEMMA FetchIsAsked ==
  ASSUME IInv, NEW c \in Call, NEW r \in Ref \ Owned, Fetch(c, r)
  PROVE  Store!Ask(c, r) \/ Store!AnswerAtOnce(c, r)
<1>1. metadata[c] = None /\ Remote' = Remote
  BY DEF IInv, FetchesOK, Fetch, Remote
<1>2. ASSUME NEW p, Goto(c, r, p) PROVE Store!Ask(c, r)
  BY <1>1, <1>2 DEF Store!Ask, Goto, Fetch
<1>3. ASSUME fetchCache[r] # None, r \in Immutable, Return(c, fetchCache[r])
      PROVE  Store!AnswerAtOnce(c, r)
  <2>1. Remote[r] = fetchCache[r]
    BY <1>3 DEF IInv, ManifestsCurrent
  <2>2. metadata' = metadata
    BY <1>1, <1>3 DEF Return, IInv, TypeOK
  <2> QED
    BY <1>1, <1>3, <2>1, <2>2 DEF Store!AnswerAtOnce, Return, Fetch
<1> QED
  BY <1>2, <1>3 DEF Fetch

\* It is answered with what the store holds then, or fails.
LEMMA FetchIsAnswered ==
  ASSUME IInv, NEW c \in Call, DigestMatches(c) \/ Pull(c) \/ PullFails(c)
  PROVE  Store!Answer(c) \/ Store!Fail(c)
<1>1. metadata[c] # None
  BY DEF IInv, FetchesOK, DigestMatches, Pull, PullFails
<1>2. Remote' = Remote
  BY DEF DigestMatches, Pull, PullFails, Remote
<1>3. CASE DigestMatches(c)
  BY <1>1, <1>2, <1>3 DEF DigestMatches, Return, Store!Answer, IInv, FetchesOK
<1>4. CASE Pull(c)
  BY <1>1, <1>2, <1>4 DEF Pull, Return, Store!Answer
<1>5. CASE PullFails(c)
  BY <1>1, <1>2, <1>5 DEF PullFails, Return, Store!Fail
<1> QED
  BY <1>3, <1>4, <1>5

\* A publish, sent or skipped, is a put.
LEMMA PublishIsPut ==
  ASSUME FailedPush \subseteq {"refused"}, IInv, NEW r \in Owned, NEW v \in Value
  PROVE  /\ PublishCached(r, v) \/ Publish(r, v) => Store!Put(r, v)
         /\ \A how \in FailedPush : PublishFails(r, v, how) => Store!PutFails(r, v)
<1>1. ASSUME PublishCached(r, v) PROVE Store!Put(r, v)
  <2>1. Remote' = Remote /\ v # None
    BY <1>1, RefAssumption DEF PublishCached, Remote
  <2>2. Remote[r] = v /\ r \in Ref
    BY <1>1, <2>1, OwnedRefs DEF PublishCached, IInv, PublishesCurrent
  <2>3. Remote' = [Remote EXCEPT ![r] = v]
    BY <2>1, <2>2 DEF Remote
  <2> QED
    BY <1>1, <2>3 DEF PublishCached, fetches, Store!Put
<1>2. ASSUME Publish(r, v) PROVE Store!Put(r, v)
  <2>1. Remote' = [Remote EXCEPT ![r] = v]
    BY <1>2, PushedSets, OwnedRefs DEF Publish, IInv, TypeOK
  <2> QED
    BY <1>2, <2>1 DEF Publish, fetches, Store!Put
<1>3. ASSUME NEW how \in FailedPush, PublishFails(r, v, how) PROVE Store!PutFails(r, v)
  <2>1. Remote' = Remote
    BY <1>3 DEF PublishFails, Remote
  <2> QED
    BY <1>3, <2>1 DEF PublishFails, fetches, Store!PutFails
<1> QED
  BY <1>1, <1>2, <1>3

\* A push by somebody else replaces something that is theirs.
LEMMA OthersReplace ==
  ASSUME IInv, NEW b \in Registry, NEW r \in Ref, NEW v \in Value,
         PushByOthers(b, r, v)
  PROVE  Store!Replace
<1>1. Remote' = IF b = baseUrl THEN [Remote EXCEPT ![r] = v] ELSE Remote
  BY PushedSets DEF PushByOthers, IInv
<1>2. Remote \in [Ref -> Held]
  <2>1. ASSUME NEW q \in Ref PROVE registry[baseUrl][Tag(q)] \in Held
    <3>1. Tag(q) \in Tags
      BY DEF Tags
    <3> QED
      BY <3>1 DEF IInv, TypeOK
  <2> QED
    BY <2>1 DEF Remote
<1>3. Remote' \in [Ref -> Held]
  BY <1>1, <1>2 DEF Held
<1>4. \A q \in Ref :
        Remote'[q] # Remote[q] => q \notin Owned /\ (q \in Immutable => Remote[q] = None)
  BY OthersSpare DEF IInv
<1> QED
  BY <1>3, <1>4 DEF Store!Replace, PushByOthers, fetches, Held

\* Every step is one of the store, or leaves it alone.
LEMMA StepIsStores ==
  ASSUME FailedPush \subseteq {"refused"}, IInv, [Next]_vars
  PROVE  [Store!StoreNext]_(Store!storeVars)
<1> USE DEF Store!StoreNext
<1>1. ASSUME NEW b \in Registry, NEW r \in Ref, NEW v \in Value, PushByOthers(b, r, v)
      PROVE  Store!StoreNext
  BY <1>1, OthersReplace
<1>2. ASSUME NEW c \in Call, NEW r \in Ref \ Owned, Fetch(c, r)
      PROVE  Store!StoreNext
  BY <1>2, FetchIsAsked
<1>3. ASSUME NEW c \in Call, DigestMatches(c) \/ Pull(c) \/ PullFails(c)
      PROVE  Store!StoreNext
  BY <1>3, FetchIsAnswered
<1>4. ASSUME NEW c \in Call, DigestDiffers(c) PROVE UNCHANGED Store!storeVars
  BY <1>4 DEF DigestDiffers, Store!storeVars, Remote
<1>5. ASSUME NEW r \in Owned, NEW v \in Value, PublishCached(r, v) \/ Publish(r, v)
      PROVE  Store!StoreNext
  BY <1>5, PublishIsPut
<1>6. ASSUME NEW r \in Owned, NEW v \in Value, NEW how \in FailedPush,
             PublishFails(r, v, how)
      PROVE  Store!StoreNext
  BY <1>6, PublishIsPut
<1>7. CASE Restart
  <2>1. Remote' = Remote
    BY <1>7 DEF Restart, Remote
  <2>2. Store!Reset
    BY <1>7, <2>1 DEF Restart, NoFetch, Store!Reset
  <2> QED
    BY <2>2
<1>8. CASE UNCHANGED vars
  BY <1>8 DEF vars, fetches, Store!storeVars, Remote
<1> QED
  BY <1>1, <1>2, <1>3, <1>4, <1>5, <1>6, <1>7, <1>8 DEF Next, ClientNext

-----------------------------------------------------------------------------

\* Whatever fails and whoever edits the backend, a fetch knows what it fetches,
\* and the maps hold artifacts under the names they belong to.
THEOREM CachedBackendTypes == MovingSpec => [](TypeOK /\ FetchesOK)
<1>1. Init => TypeOK /\ FetchesOK
  BY InitIInv DEF IInv
<1>2. TypeOK /\ FetchesOK /\ [Next \/ Move]_vars => (TypeOK /\ FetchesOK)'
  BY TypesStep, FetchesStep
<1> QED
  BY <1>1, <1>2, PTL DEF MovingSpec

\* A manifest that is taken from the cache unchecked is the registry's, however
\* pushes fail.
THEOREM ManifestsStayCurrent == Spec => []ManifestsCurrent
<1> DEFINE J == TypeOK /\ FetchesOK /\ ManifestsCurrent
<1>1. Init => J
  BY InitIInv DEF IInv
<1>2. J /\ [Next]_vars => J'
  BY TypesStep, FetchesStep, ManifestsStep
<1>3. J => ManifestsCurrent
  OBVIOUS
<1> QED
  BY <1>1, <1>2, <1>3, PTL DEF Spec

\* The inductive invariant holds in every state, when a push that fails has no
\* effect and the backend stays.
THEOREM CachedBackendInvariant ==
  ASSUME FailedPush \subseteq {"refused"}
  PROVE  Spec => []IInv
<1>1. Init => IInv
  BY InitIInv
<1>2. IInv /\ [Next]_vars => IInv'
  BY StepIInv
<1> QED
  BY <1>1, <1>2, PTL DEF Spec

\* Then what was published without an error is served.
THEOREM CachedBackendServes ==
  ASSUME FailedPush \subseteq {"refused"}
  PROVE  Spec => []PublishedIsServed
<1>1. IInv => PublishedIsServed
  BY DEF IInv
<1> QED
  BY <1>1, CachedBackendInvariant, PTL

\* And the client with its two caches implements the store without a cache:
\* every step of the client is a step of the store, or none.
THEOREM CachedBackendIsAStore ==
  ASSUME FailedPush \subseteq {"refused"}
  PROVE  Spec => IsAStore
<1>1. Init => Store!StoreInit
  BY DEF Init, Store!StoreInit, Remote, Tags
<1>2. IInv /\ [Next]_vars => [Store!StoreNext]_(Store!storeVars)
  BY StepIsStores
<1> QED
  BY <1>1, <1>2, CachedBackendInvariant, PTL DEF Spec, IsAStore, Store!StoreSpec

=============================================================================
