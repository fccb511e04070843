SPECIFICATION MCSpec
CONSTANTS
  c1 = c1
  handler = handler
  Clients = {c1}
  Handler = handler
  Operations = {"get", "start", "start_instance", "retry", "cancel", "process", "process_instance"}
  MaxInstances <- MCMaxInstances
  MaxRequests <- MCMaxRequests
  MaxBacklog = 1
  h1 = h1
  h2 = h2
  Data <- MCData
  Procs = {1, 2}
  Limits = {0, 1}
  Samples = 2
  MaxRuns = 2
  u1 = u1
  u2 = u2
  u3 = u3
  fileA = fileA
  fileB = fileB
  FimTasks = {u1, u2, u3}
  FimFileOf <- MCFimFileOf
  Isolated = {u3}
  TakenFor <- MCTakenFor
  MaxConcurrency = 2
  ForcedAttempts = 2
  MaxBatches = 2
  rootFile = rootFile
  otherFile = otherFile
  None = None
  Commits <- MCCommits
  ContextWindow = 1
  SnippetWindow = 1
  MaxRetries = 2
  OracleWindow = 1
  FixWindow = 1
  Named <- MCNamed
INVARIANTS
  ProgramsTypeOK
  NoRecordLost
  RecordedOnce
  
  
  EvaluatedIsReported
  NoPrematureCompletion
  EvaluationIsRecorded
  TruthIsCommit
  PromptsAreSound
CHECK_DEADLOCK FALSE
