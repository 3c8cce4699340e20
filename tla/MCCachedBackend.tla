--------------------------- MODULE MCCachedBackend ---------------------------
(***************************************************************************)
(* Instances of CachedBackend for model checking: the deployment "b", which*)
(* follows "a".                                                            *)
(***************************************************************************)
EXTENDS CachedBackend

CONSTANTS v1, v2, c1, c2

Deployments == {"a", "b"}
Versions == {"1"}

\* One ref of each kind that this client treats in its own way.
ClientRefs == {ManifestOf("b", "1"), StatusOf("a"), StatusOf("b"), DeployOf("b")}
OwnRefs == {StatusOf("b"), DeployOf("b")}

Url(scheme, repository) == [scheme |-> scheme, repository |-> repository]
OneBackend == {Url("oci", "x"), Url("s3", "x")}
TwoBackends == {Url("oci", "x"), Url("oci", "y")}

=============================================================================
