SPECIFICATION RuntimeSpec
CONSTANTS
  Files <- MCFiles
  Tracked <- MCTracked
  Protected <- MCProtected
  Patches <- MCPatches
  NoPatch = NoPatch
  Hunks <- MCHunks
  TestPatches <- MCTestPatches
  MaxTestFiles = 2
INVARIANT AppliedMeansApplied
CHECK_DEADLOCK FALSE
