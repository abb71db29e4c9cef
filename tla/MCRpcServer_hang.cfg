\* Every method returns, possibly with an error.
CONSTANTS
  r1 = r1
  r2 = r2
  Nobody = Nobody
  Requests = {r1}
  HandleTimeout = FALSE
SPECIFICATION MethodsReturnSpec
PROPERTIES ServeConnReturns
\* A connection that is closed, or whose handlers all wait, takes no step.
CHECK_DEADLOCK FALSE
