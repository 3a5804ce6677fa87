SPECIFICATION Spec
CONSTANTS
  r1 = r1
  r2 = r2
  None = None
  Records <- MCRecords
  MaxResets = 1
  MaxVaried = 3
  MaxLogged = 2
  Nil = Nil
  Texts <- MCTexts
  Customs <- MCCustoms
  MaxErrors = 4
  MaxErrorDepth = 2
SYMMETRY MCSymmetry
INVARIANTS
  TypeOK
  CausesAreShown
  MessagesCanBeRead
  StoredOnce
  FailureListsSearched
  CausesAreFound
CHECK_DEADLOCK FALSE
