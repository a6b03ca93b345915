CONSTANTS
  None = None
  c1 = c1
  c2 = c2
  Callers = {c1, c2}
  BackoffInitial = 1
  BackoffCap = 5
  FloatMaxExp = 1024
  MaxAttempt = 4
  MaxOutages = 2
SPECIFICATION Spec
PROPERTIES BackoffNeverShrinks KeepsReconnecting
\* Nobody may ever call start().
CHECK_DEADLOCK FALSE
