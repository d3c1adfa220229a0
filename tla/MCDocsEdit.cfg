SPECIFICATION Spec
CONSTANTS
  Documents <- MCDocuments
  Ops <- MCOps
  MaxEdits = 1
  MaxInsert = 3
  MaxRows = 2
  MaxColumns = 2
  None = None
INVARIANTS
  TypeOK
  DocsTakesEveryPlan
  AnswersAreTrue
PROPERTIES
  WritesAreExact
  WrittenAsShown
  FilledAsAsked
CHECK_DEADLOCK FALSE
