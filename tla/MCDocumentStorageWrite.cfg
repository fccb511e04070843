SPECIFICATION StorageSpec
CONSTANTS
  NoFile = NoFile
  w1 = w1
  w2 = w2
  w3 = w3
  Writers = {w1, w2, w3}
  ProcessOf <- MCProcessOf
  Lengths = {1, 2}
  MaxAccesses = 4
  MaxKills = 0
INVARIANT WrittenIsReadable
CHECK_DEADLOCK FALSE
