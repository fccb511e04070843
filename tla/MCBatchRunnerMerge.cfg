SPECIFICATION BatchSpec
CONSTANTS
  h1 = h1
  h2 = h2
  Data <- MCData
  Procs = {1, 2}
  Limits = {0, 1}
  Samples = 2
  MaxRuns = 2
INVARIANT MergeKeepsRecords
CHECK_DEADLOCK FALSE
