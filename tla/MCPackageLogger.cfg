SPECIFICATION FairSpec
CONSTANTS
  g1 = g1
  g2 = g2
  l0 = l0
  l1 = l1
  l2 = l2
  k1 = k1
  k2 = k2
  None = None
  Goroutines <- MCGoroutines
  Loggers = {l0}
  Initial = l0
  Hooks <- MCHooks
  MaxDepth = 2
INVARIANTS
  TypeOK
  HooksBeforeExit
  HooksRunUnlocked
PROPERTY
  FatalExits
CHECK_DEADLOCK FALSE
