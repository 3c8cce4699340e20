\* Three versions, every health state, a clock of four ticks.
SPECIFICATION Spec
CONSTANTS
  v1 = v1
  v2 = v2
  v3 = v3
  Version = {v1, v2, v3}
  PublishedState = {"Healthy", "Pending", "Degraded", "Unhealthy"}
  MaxTime = 3
  MaxReport = 4
SYMMETRY VersionSymmetry
INVARIANTS
  TypeOK
  LatestRecorded
  WellFormed
  FailureRemembered
  BakeNeverEarly
  ExactWhenHealthy
PROPERTY QuietPoll
