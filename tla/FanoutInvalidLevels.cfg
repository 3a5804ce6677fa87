SPECIFICATION Spec
CONSTANTS
  g1 = g1
  g2 = g2
  file = file
  test = test
  buffer = buffer
  debug = debug
  warn = warn
  None = None
  Malformed = Malformed
  Invalid = Invalid
  Var = Var
  Report = Report
  Bug = Bug
  Goroutines = {g1, g2}
  Order <- MCOrder
  Given <- MCGiven
  TestLoggers = {test}
  Failing = {file}
  Adders = {file, test, buffer}
  Options <- MCOptions
  WrittenLevels <- MCWrittenLevels
  MaxOptions = 2
  UsedLevels <- MCUsedLevels
  Records = {debug, warn}
  LevelOf <- MCLevelOf
  VarLevels <- MCVarLevels
PROPERTY
  EveryInvalidIsReported
CHECK_DEADLOCK FALSE
