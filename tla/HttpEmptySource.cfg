SPECIFICATION RequestSpec
CONSTANTS
  Statuses = {500}
  Sizes = {0}
  MaxCalls = 2
  Setups <- MCFlushing
INVARIANT
  StatusIsSent
CHECK_DEADLOCK FALSE
