SPECIFICATION AuditSpec
CONSTANTS
  p1 = p1
  p2 = p2
  msg = msg
  other = other
  fatal = fatal
  NoTime = NoTime
  NoRecord = NoRecord
  Procs <- MCProcs
  Keys <- MCKeys
  FatalKeys <- MCFatalKeys
  Buckets = {0, 1}
  BucketOf <- MCBucketOf
  TickMod = 8
  CountMax = 3
  RawTick = 1
  DefaultTick = 1
  RawFirst = 1
  RawThereafter = 0
  Backdate = 0
  MaxTime = 2
  MaxRecords = 5
SYMMETRY MCSymmetry
INVARIANT
  PerTickLimit
CHECK_DEADLOCK FALSE
