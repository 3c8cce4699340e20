\* Two backends and an unsupported one, two jobs, a client that is moved.
SPECIFICATION KSpec
CONSTANTS
  Name <- Deployments
  Release = {}
  v1 = v1
  v2 = v2
  c1 = c1
  j1 = j1
  j2 = j2
  Ref <- Refs
  Owned = {}
  Value = {v1, v2}
  Call = {c1}
  None = None
  Error = Error
  BaseUrl <- Backends
  FailedPush = {"refused", "unacknowledged"}
  Job = {j1, j2}
  Repo <- Repos
INVARIANTS
  JobsOK
  SuccessIsServed
PROPERTIES
  OwnConfiguration
  IsAStore
