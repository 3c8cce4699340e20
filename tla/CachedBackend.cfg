\* Two goroutines, one registry, pushes that fail without effect.
SPECIFICATION Spec
CONSTANTS
  Name <- Deployments
  Release <- Versions
  v1 = v1
  v2 = v2
  c1 = c1
  c2 = c2
  Ref <- ClientRefs
  Owned <- OwnRefs
  Value = {v1, v2}
  Call = {c1, c2}
  None = None
  Error = Error
  BaseUrl <- OneBackend
  FailedPush = {"refused"}
INVARIANTS
  TypeOK
  PublishedIsServed
PROPERTY IsAStore
