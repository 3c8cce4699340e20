------------------------------ MODULE Artifacts ------------------------------
(***************************************************************************)
(* How artifacts are named (pkg/clients/propagation_backend_client_oci.go):*)
(* the ArtifactMetadata that the caches are keyed by, and the repository   *)
(* and tag that the OCI backend keeps the artifact under.  Operators only. *)
(* A path is relative to the repository of the backend; names of           *)
(* deployments are taken as single path elements.                          *)
(***************************************************************************)
EXTENDS Sequences

ArtifactType == {"DeployStatus", "Manifest", "Deploy", "PropagationConfig"}

DefaultTag == "latest"
Unnamed == ""       \* the zero value of Deployment and Version

ArtifactMetadata(D, V) ==
  [type : ArtifactType, deployment : D \cup {Unnamed}, version : V \cup {Unnamed}]

\* What the operations of PropagationClient ask for.
StatusOf(d) == [type |-> "DeployStatus", deployment |-> d, version |-> Unnamed]
ManifestOf(d, v) == [type |-> "Manifest", deployment |-> d, version |-> v]
DeployOf(d) == [type |-> "Deploy", deployment |-> d, version |-> Unnamed]
Configuration == [type |-> "PropagationConfig", deployment |-> Unnamed, version |-> Unnamed]

Subpath == [DeployStatus |-> "statuses", Manifest |-> "manifests",
            Deploy |-> "deploy", PropagationConfig |-> "config"]

Tag_FaultyNoSubpath(m) ==
  [path |-> <<m.deployment>>,
   tag |-> IF m.type = "Manifest" THEN m.version ELSE DefaultTag]

\* ociTagFromArtifactMetadata: only a manifest keeps its version, and joining
\* the path drops an empty deployment.
Tag(m) ==
  [path |-> IF m.deployment = Unnamed
            THEN <<Subpath[m.type]>>
            ELSE <<Subpath[m.type], m.deployment>>,
   tag |-> IF m.type = "Manifest" THEN m.version ELSE DefaultTag]

\* A manifest with a version is written once, and cached without a check.
IsImmutable(m) == m.type = "Manifest" /\ m.version # DefaultTag

-----------------------------------------------------------------------------
(***************************************************************************)
(* Backends.  A baseUrl is a scheme and the repository it names.           *)
(***************************************************************************)

\* The protocols of newPropagationBackendClient.
Supported(url) == url.scheme = "oci"

=============================================================================
