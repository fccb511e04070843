SPECIFICATION Spec
CONSTANTS
  Jobs = {j1, j2}
  Projects = {{j1, j2}}
  Callers = {c1, c2}
  Nobody = Nobody
  MaxTasks = 3
  RestartInGap = TRUE
  Signals = FALSE
CHECK_DEADLOCK FALSE
INVARIANT AtMostOneExecution
