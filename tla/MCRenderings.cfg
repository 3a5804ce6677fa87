SPECIFICATION MCSpec
CONSTANTS
  NoKey = NoKey
  Attrs <- MCAttrs
  Nesting <- MCNesting
  AttrLists <- MCAttrLists
  Names <- MCNames
  Removals <- MCAllRemovals
  RecordKinds <- MCRecordKinds
  Malformed = Malformed
  Invalid = Invalid
  MaxSteps = 4
  Messages <- MCMessages
  LoggedItems <- MCItems
  MaxSize = 2
  NoPC = NoPC
  FirstSize = 2
  Stacks <- MCStacks
  Depths <- MCDepths
INVARIANTS
  JsonTellsAll
  PrettyTellsAll
  RecorderTellsAll
  FoundByAttrs
  TextsCanBeRead
  TraceStartsAtCaller
CHECK_DEADLOCK FALSE
