SPECIFICATION MCSpec
CONSTANTS
  MaxSteps = 2
  Settings <- MCSettings
  MaxTasks = 1
  Texts = {1}
  StepLists <- MCStepLists
  MaxTokens = 8
  MaxObservation = 2
  MaxNodes = 4
  lineA = lineA
  lineB = lineB
  lineX = lineX
  Lines = {lineA, lineB, lineX}
  Char = Char
  None = None
  Originals <- MCOriginals
  Storing = {"shadow", "files"}
  Hunk = 1
  MaxLines = 3
  MaxContexts = 3
  MaxEdits = 2
  Args = {good, other, bad}
  ValidArgs = {good, other}
  MaxCalls = 3
  MaxValidations = 3
  MaxRequests = 3
  importSpan = importSpan
  classSpan = classSpan
  initSpan = initSpan
  methodSpan = methodSpan
  funcSpan = funcSpan
  Spans = {importSpan, classSpan, initSpan, methodSpan, funcSpan}
  Structures = {classSpan, initSpan, methodSpan, funcSpan}
  ImportSpan = importSpan
  Constructors = {initSpan}
  NoSpan = NoSpan
  ClassOf <- MCClassOf
  Contents <- MCContents
  Repository <- MCRepository
  MaxChanges = 2
  TaskIds = {id1, id2}
  NoTask = NoTask
  MaxTaskActions = 3
  MaxTaskFaults = 2
INVARIANTS
  TrajectoryTypeOK
  SavedIsKept
  OutcomeSaved
  VisitsCounted
  NodeToRun
  FilesAreSeen
  AttemptsCounted
  RequestsAccepted
CHECK_DEADLOCK FALSE
