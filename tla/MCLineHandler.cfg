SPECIFICATION Spec
CONSTANTS
  r1 = r1
  r2 = r2
  huge = huge
  l1 = l1
  l2 = l2
  l3 = l3
  None = None
  Records <- MCRecords
  HugeRecords = {huge}
  NumParts = 2
  ErrorParts = {1}
  Lines <- MCLines
SYMMETRY MCSymmetry
INVARIANTS
  TypeOK
  PoolSafe
  LockedOnlyToWrite
  WholeLines
CHECK_DEADLOCK FALSE
