\* A COMMIT of an earlier round arrives while the model runs.
SPECIFICATION Spec
CONSTANTS
  q1 = q1
  q2 = q2
  None = None
  Request <- TwoRequests
  MaxSubmits = 2
INVARIANT RunsForever
