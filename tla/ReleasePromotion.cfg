\* Two tags, two artifacts, two texts, two changes, a failure.  Once the object is
\* deleted everything may come to rest.
SPECIFICATION Spec
CONSTANTS
  MaxTag = 2
  Value = {v1, v2}
  Text = {t1, t2}
  None = None
  MaxChanges = 2
  MaxFailures = 1
INVARIANTS
  TypeOK
  RestsOnSuccess
PROPERTIES
  Promoted
  FailureTold
  DeletedRests
  Settles
CHECK_DEADLOCK FALSE
