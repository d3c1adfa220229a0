SPECIFICATION Spec
CONSTANTS
  Documents <- MCDocuments
  Ops <- MCOps
  MaxEdits = 1
  MaxInsert = 3
  MaxRows = 2
  MaxColumns = 2
  None = None
PROPERTIES
  EditKeepsPictures
CHECK_DEADLOCK FALSE
