SPECIFICATION Spec
CONSTANTS
  j1 = j1
  j2 = j2
  j3 = j3
  Jobs = {j1}
  Clients = {c1}
  Loop = loop
  MaxTotal = 1
  MaxPerProject = 0
  AutoCleanup = TRUE
  Serial = FALSE
  Reliable = TRUE
  MaxRequests = 2
  ProjectOf <- MCProjectOf
SYMMETRY Symmetry
INVARIANTS
  EveryContainerRecorded
