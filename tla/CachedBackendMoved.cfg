\* spec.backend.baseUrl is edited.
SPECIFICATION MovingSpec
CONSTANTS
  Name <- Deployments
  Release <- Versions
  v1 = v1
  v2 = v2
  c1 = c1
  c2 = c2
  Ref <- ClientRefs
  Owned <- OwnRefs
  Value = {v1, v2}
  Call = {c1}
  None = None
  Error = Error
  BaseUrl <- TwoBackends
  FailedPush = {"refused"}
INVARIANT PublishedIsServed
