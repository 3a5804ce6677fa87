SPECIFICATION FairSpec
CONSTANTS
  r1 = r1
  r2 = r2
  huge = huge
  l1 = l1
  l3 = l3
  l2 = l2
  None = None
  Records = {r1, huge}
  HugeRecords = {huge}
  NumParts = 1
  ErrorParts = {1}
  Lines = {l1, l2}
PROPERTY
  EveryCallReturns
CHECK_DEADLOCK FALSE
