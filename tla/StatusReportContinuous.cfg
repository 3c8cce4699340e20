\* The doc comment's continuity, which overlapping failures break.
SPECIFICATION Spec
CONSTANTS
  v1 = v1
  v2 = v2
  v3 = v3
  Version = {v1, v2, v3}
  PublishedState = {"Healthy", "Degraded"}
  MaxTime = 3
  MaxReport = 4
SYMMETRY VersionSymmetry
INVARIANT ContinuousHealth
