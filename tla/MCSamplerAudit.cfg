SPECIFICATION FairAuditSpec
CONSTANTS
  p1 = p1
  p2 = p2
  msg = msg
  other = other
  fatal = fatal
  NoTime = NoTime
  NoRecord = NoRecord
  Procs <- MCProcs
  Keys <- MCKeys
  FatalKeys <- MCFatalKeys
  Buckets = {0, 1}
  BucketOf <- MCBucketOf
  TickMod = 2
  CountMax = 3
  RawTick = 2
  DefaultTick = 1
  RawFirst = 1
  RawThereafter = 2
  Backdate = 1
  MaxTime = 2
  MaxRecords = 5
INVARIANTS
  TypeOK
  WindowQuota
  ExactWhenInOrder
PROPERTIES
  ImplementsLimiter
  LockFree
CHECK_DEADLOCK FALSE
