SPECIFICATION Spec
CONSTANTS
  g1 = g1
  g2 = g2
  l0 = l0
  l1 = l1
  l2 = l2
  k1 = k1
  k2 = k2
  None = None
  Goroutines <- MCGoroutines
  Loggers = {l0, l1, l2}
  Initial = l0
  Hooks = {}
  MaxDepth = 0
INVARIANT
  DefaultsAgree
CHECK_DEADLOCK FALSE
