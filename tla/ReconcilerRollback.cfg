\* The deployment goes back to a version it ran before.
SPECIFICATION Spec
CONSTANTS
  Required = {d1}
  Varying = {}
  MaxVersion = 2
  MaxChanges = 2
  MaxFailures = 1
  Disturbance = {"rollback"}
PROPERTY StatusAccurate
