\* Two required deployments, two versions, three changes, a failure or restart.
SPECIFICATION Spec
CONSTANTS
  Required = {d1, d2}
  Varying = {"ConfigInitFailed"}
  MaxVersion = 2
  MaxChanges = 3
  MaxFailures = 1
  Disturbance = {}
INVARIANTS
  TypeOK
  StaleReadsStop
  ReadyOnRecord
  NeverForgotten
PROPERTIES
  SavedBeforeUse
  ReadyTells
  Settles
  StatusAccurate
