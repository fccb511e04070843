SPECIFICATION FairSpec
CONSTANTS
  j1 = j1
  j2 = j2
  j3 = j3
  Jobs = {j1, j2, j3}
  Clients = {c1}
  Loop = loop
  MaxTotal = 2
  MaxPerProject = 1
  AutoCleanup = TRUE
  Serial = TRUE
  Reliable = TRUE
  MaxRequests = 4
  ProjectOf <- MCProjectOf
PROPERTY QueuedJobLeaves
INVARIANTS
  TypeOK
  
  RecordsAgree
