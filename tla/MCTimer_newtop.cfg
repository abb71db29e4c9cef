\* A later function with a shorter delay.
CONSTANTS
  f1 = f1
  f2 = f2
  f3 = f3
  Functions = {f1, f2}
  Delays = {0, 2}
  MaxTime = 3
  Nothing = Nothing
SPECIFICATION FairSpec
PROPERTIES NewTopRunsFirst
\* A worker that sleeps or has left takes no step.
CHECK_DEADLOCK FALSE
