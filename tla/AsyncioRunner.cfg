SPECIFICATION Spec
CONSTANTS
  Jobs = {j1, j2}
  Projects = {{j1, j2}}
  Callers = {c1, c2}
  Nobody = Nobody
  MaxTasks = 3
  RestartInGap = FALSE
  Signals = TRUE
INVARIANTS
  TypeOK
  AtMostOneExecution
  LiveTaskIsTracked
  TerminalMeansOver
  OutcomeIsOwn
  NoStuckJob
PROPERTY
  ImplementsLifecycle
CHECK_DEADLOCK FALSE
