------------------------------- MODULE MCKpctl -------------------------------
(***************************************************************************)
(* An instance of Kpctl for model checking: two backends and two jobs.     *)
(* One has two files for the backend y, the second of them with what it    *)
(* also publishes to x; the other ends with an unsupported backend.        *)
(***************************************************************************)
EXTENDS Kpctl, TLC

CONSTANTS v1, v2, c1, j1, j2

Deployments == {"a"}
Url(scheme, repository) == [scheme |-> scheme, repository |-> repository]
X == Url("oci", "x")
Y == Url("oci", "y")
Z == Url("s3", "z")
Backends == {X, Y, Z}

Refs == {Configuration, StatusOf("a")}
Entry(b, v) == [backend |-> b, config |-> v]
Repos ==
  (j1 :> <<Entry(Y, v2), Entry(X, v1), Entry(Y, v1)>>)
  @@ (j2 :> <<Entry(Y, v2), Entry(Z, v2)>>)

=============================================================================
