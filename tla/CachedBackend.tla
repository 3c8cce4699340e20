---------------------------- MODULE CachedBackend ----------------------------
(***************************************************************************)
(* The PropagationClient of one Propagation (pkg/clients/propagation_      *)
(* backend_client_oci.go): an OCI registry behind the two maps of a        *)
(* CachedPropagationBackendClient.  The goroutines of one reconcile fetch  *)
(* concurrently; publishes and the choice of the backend happen in between *)
(* (Reconcile waits for the goroutines).  Others use the registry at any   *)
(* time.  fetchCache is a Go map that the goroutines write without a lock: *)
(* two overlapping writes may end the process, which is Restart.           *)
(***************************************************************************)
EXTENDS Artifacts

CONSTANTS
  Name,           \* deployments
  Release,        \* versions of manifests, "latest" perhaps among them
  Ref, Owned, Value, Call, None, Error,   \* see Backend
  BaseUrl,        \* what spec.backend.baseUrl may be
  FailedPush      \* how a push fails: "refused", "unacknowledged"

\* The manifests that Fetch takes from its cache unchecked.
Immutable == {r \in Ref : IsImmutable(r)}

\* The backends that newPropagationBackendClient can talk to.
Registry == {b \in BaseUrl : Supported(b)}

ASSUME RefAssumption ==
  /\ Ref \subseteq ArtifactMetadata(Name, Release)
  /\ \A r \in Ref : r.type # "Manifest" => r.version = Unnamed
  /\ Owned \subseteq {r \in Ref : r.type \in {"DeployStatus", "Deploy"}}
  /\ None \notin Ref \cup Value
  /\ Error \notin Value \cup {None}
ASSUME BaseUrlAssumption == Registry # {}
ASSUME FailureAssumption == FailedPush \subseteq {"refused", "unacknowledged"}

VARIABLES
  registry,       \* what each registry holds under each tag
  baseUrl,        \* the registry the client talks to
  fetchCache,     \* what this client last pulled
  publishCache,   \* what this client last pushed
  phase,          \* where each fetch stands: idle, digest or pull
  metadata,       \* the ref it fetches
  cached,         \* its local "cached"
  answer,         \* history: what the last fetch of each goroutine returned
  acknowledged    \* history: the last artifact published without an error

caches == <<fetchCache, publishCache>>
fetches == <<phase, metadata, cached, answer>>
vars == <<registry, baseUrl, caches, fetches, acknowledged>>

Held == Value \cup {None}

Tags == {Tag(r) : r \in Ref}

TypeOK ==
  /\ registry \in [Registry -> [Tags -> Held]]
  /\ baseUrl \in Registry
  /\ fetchCache \in [Ref -> Held]
  /\ publishCache \in [Owned -> Held]
  /\ phase \in [Call -> {"idle", "digest", "pull"}]
  /\ metadata \in [Call -> Ref \cup {None}]
  /\ cached \in [Call -> Held]
  /\ answer \in [Call -> Held \cup {Error}]
  /\ acknowledged \in [Owned -> Held]

NoFetch ==
  /\ phase' = [c \in Call |-> "idle"]
  /\ metadata' = [c \in Call |-> None]
  /\ cached' = [c \in Call |-> None]
  /\ answer' = [c \in Call |-> None]

NoCache ==
  /\ fetchCache' = [r \in Ref |-> None]
  /\ publishCache' = [r \in Owned |-> None]

Init ==
  /\ registry = [b \in Registry |-> [t \in Tags |-> None]]
  /\ baseUrl \in Registry
  /\ fetchCache = [r \in Ref |-> None]
  /\ publishCache = [r \in Owned |-> None]
  /\ phase = [c \in Call |-> "idle"]
  /\ metadata = [c \in Call |-> None]
  /\ cached = [c \in Call |-> None]
  /\ answer = [c \in Call |-> None]
  /\ acknowledged = [r \in Owned |-> None]

\* What the registry in use holds.
Remote == [r \in Ref |-> registry[baseUrl][Tag(r)]]

Pushed(b, r, v) == registry' = [registry EXCEPT ![b][Tag(r)] = v]

\* CI and the other Propagations push; CI never pushes a version twice.
PushByOthers(b, r, v) ==
  /\ r \notin Owned
  /\ r \in Immutable => registry[b][Tag(r)] = None
  /\ Pushed(b, r, v)
  /\ UNCHANGED <<baseUrl, caches, fetches, acknowledged>>

-----------------------------------------------------------------------------
(***************************************************************************)
(* Fetch.                                                                  *)
(***************************************************************************)

Return(c, a) ==
  /\ phase' = [phase EXCEPT ![c] = "idle"]
  /\ metadata' = [metadata EXCEPT ![c] = None]
  /\ cached' = [cached EXCEPT ![c] = None]
  /\ answer' = [answer EXCEPT ![c] = a]

Goto(c, r, p) ==
  /\ phase' = [phase EXCEPT ![c] = p]
  /\ metadata' = [metadata EXCEPT ![c] = r]
  /\ cached' = [cached EXCEPT ![c] = fetchCache[r]]
  /\ answer' = [answer EXCEPT ![c] = None]

Fetch_FaultyTrustCache(c, r) ==
  /\ phase[c] = "idle"
  /\ IF fetchCache[r] = None THEN Goto(c, r, "pull") ELSE Return(c, fetchCache[r])
  /\ UNCHANGED <<registry, baseUrl, caches, acknowledged>>

\* Look the ref up in fetchCache: a cached manifest with a version is the
\* answer, anything else that is cached is checked against the registry.
Fetch(c, r) ==
  /\ phase[c] = "idle"
  /\ \/ /\ fetchCache[r] = None
        /\ Goto(c, r, "pull")
     \/ /\ fetchCache[r] # None
        /\ r \in Immutable
        /\ Return(c, fetchCache[r])
     \/ /\ fetchCache[r] # None
        /\ r \notin Immutable
        /\ Goto(c, r, "digest")
  /\ UNCHANGED <<registry, baseUrl, caches, acknowledged>>

DigestMatches_FaultyAnyDigest(c) ==
  /\ phase[c] = "digest"
  /\ Remote[metadata[c]] # None
  /\ Return(c, cached[c])
  /\ UNCHANGED <<registry, baseUrl, caches, acknowledged>>

\* The digest of the registry is that of the cached artifact.
DigestMatches(c) ==
  /\ phase[c] = "digest"
  /\ Remote[metadata[c]] = cached[c]
  /\ Return(c, cached[c])
  /\ UNCHANGED <<registry, baseUrl, caches, acknowledged>>

\* It is another one, or could not be had.
DigestDiffers(c) ==
  /\ phase[c] = "digest"
  /\ phase' = [phase EXCEPT ![c] = "pull"]
  /\ UNCHANGED <<registry, baseUrl, caches, metadata, cached, answer, acknowledged>>

Pull_FaultyCacheError(c) ==
  /\ phase[c] = "pull"
  /\ LET a == IF Remote[metadata[c]] = None THEN Error ELSE Remote[metadata[c]]
     IN  /\ fetchCache' = [fetchCache EXCEPT ![metadata[c]] = a]
         /\ Return(c, a)
  /\ UNCHANGED <<registry, baseUrl, publishCache, acknowledged>>

Pull(c) ==
  /\ phase[c] = "pull"
  /\ Remote[metadata[c]] # None
  /\ fetchCache' = [fetchCache EXCEPT ![metadata[c]] = Remote[metadata[c]]]
  /\ Return(c, Remote[metadata[c]])
  /\ UNCHANGED <<registry, baseUrl, publishCache, acknowledged>>

\* There is no such artifact, or the registry cannot be reached.
PullFails(c) ==
  /\ phase[c] = "pull"
  /\ Return(c, Error)
  /\ UNCHANGED <<registry, baseUrl, caches, acknowledged>>

-----------------------------------------------------------------------------
(***************************************************************************)
(* Publish, Propagation and a restart of the process.                      *)
(***************************************************************************)

Idle == \A c \in Call : phase[c] = "idle"

\* The artifact is the one this client published last: nothing is sent.
PublishCached(r, v) ==
  /\ Idle
  /\ publishCache[r] = v
  /\ acknowledged' = [acknowledged EXCEPT ![r] = v]
  /\ UNCHANGED <<registry, baseUrl, caches, fetches>>

Publish(r, v) ==
  /\ Idle
  /\ publishCache[r] # v
  /\ Pushed(baseUrl, r, v)
  /\ publishCache' = [publishCache EXCEPT ![r] = v]
  /\ acknowledged' = [acknowledged EXCEPT ![r] = v]
  /\ UNCHANGED <<baseUrl, fetchCache, fetches>>

PublishFails_FaultyCacheFirst(r, v, how) ==
  /\ Idle
  /\ publishCache[r] # v
  /\ how \in FailedPush
  /\ IF how = "refused" THEN UNCHANGED registry ELSE Pushed(baseUrl, r, v)
  /\ publishCache' = [publishCache EXCEPT ![r] = v]
  /\ acknowledged' = [acknowledged EXCEPT ![r] = None]
  /\ UNCHANGED <<baseUrl, fetchCache, fetches>>

\* The push fails, and publishCache is left alone: the registry has refused
\* it, or has carried it out and the acknowledgement is lost.  Reading the
\* cached artifact for the comparison may fail as well (Bytes pulls the layers
\* of a manifest): nothing is sent then, whatever the artifact is.
PublishFails(r, v, how) ==
  /\ Idle
  /\ how \in FailedPush
  /\ how = "unacknowledged" => publishCache[r] # v
  /\ IF how = "refused" THEN UNCHANGED registry ELSE Pushed(baseUrl, r, v)
  /\ acknowledged' = [acknowledged EXCEPT ![r] = None]
  /\ UNCHANGED <<baseUrl, caches, fetches>>

\* PropagationClientset.Propagation for a Propagation whose baseUrl was edited:
\* the client gets a new backend and keeps its caches.  For a backend that is
\* not supported, or a secret that cannot be read, everything stays as it was.
SetBackend(b) ==
  /\ Idle
  /\ b \in Registry
  /\ b # baseUrl
  /\ baseUrl' = b
  /\ acknowledged' = [r \in Owned |-> None]
  /\ UNCHANGED <<registry, caches, fetches>>

\* Propagation for an unknown key: a new client, with empty caches.
Restart ==
  /\ NoCache
  /\ NoFetch
  /\ UNCHANGED <<registry, baseUrl, acknowledged>>

\* The client's own steps.
ClientNext ==
  \/ \E c \in Call, r \in Ref \ Owned : Fetch(c, r)
  \/ \E c \in Call : DigestMatches(c) \/ DigestDiffers(c) \/ Pull(c) \/ PullFails(c)
  \/ \E r \in Owned, v \in Value : PublishCached(r, v) \/ Publish(r, v)
  \/ \E r \in Owned, v \in Value, how \in FailedPush : PublishFails(r, v, how)
  \/ Restart

\* As long as spec.backend.baseUrl stays as it is.
Next ==
  \/ \E b \in Registry, r \in Ref, v \in Value : PushByOthers(b, r, v)
  \/ ClientNext

Spec == Init /\ [][Next]_vars

\* A user edits it.
Move == \E b \in BaseUrl : SetBackend(b)

MovingSpec == Init /\ [][Next \/ Move]_vars

-----------------------------------------------------------------------------
(***************************************************************************)
(* Properties.                                                             *)
(***************************************************************************)

\* After a PublishStatus or a Propagate without an error, whether or not it sent
\* anything, the registry serves that artifact (the round trips of
\* TestGetStatusOCI and TestPropagate), across failed pushes and restarts.
PublishedIsServed ==
  \A r \in Owned : acknowledged[r] # None => Remote[r] = acknowledged[r]

\* The client with its caches is a store: no cached answer is older than the
\* call, two goroutines fetching the same ref do not disturb each other, and a
\* skipped push is one that would have changed nothing.
Store == INSTANCE Backend WITH
  store <- Remote,
  waiting <- metadata

IsAStore == Store!StoreSpec

=============================================================================
