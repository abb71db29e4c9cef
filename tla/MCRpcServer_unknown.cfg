\* A request for an unknown method.
CONSTANTS
  r1 = r1
  r2 = r2
  Nobody = Nobody
  Requests = {r1, r2}
  HandleTimeout = FALSE
SPECIFICATION Spec
INVARIANTS ServesUntilHangUp
\* A connection that is closed, or whose handlers all wait, takes no step.
CHECK_DEADLOCK FALSE
