SPECIFICATION Spec
CONSTANTS
  Calls = {c1, c2}
  Uploads = {"u1", "u2"}
  None = None
  Ids = {1, 2, 3, 4, 5, 6, 7, 8, 9}
  InDrive <- MCInDrive
  InVersions <- MCVersions
  TypeOf <- MCTypeOf
  Google = {"folder", "doc", "sheet"}
  KeepMax = 1
  RevisionsPage = 2
  MaxVersions = 4
  Names = {"b"}
  DraftIds = {1, 2, 3, 4, 5}
  Mailbox <- MCMailbox
  LabelsOf <- MCLabelsOf
  KnownLabels = {"work"}
  Aliases <- MCAliases
  OwnAddress = "me"
  SizeOf <- MCSizeOf
  AttachmentMax = 3
  InBooks <- MCInBooks
  Lower <- MCLower
  MaxRows = 2
  PreviewRowsMax = 1
  PreviewFormulas = 1
  Word = 8
  EventIds = {1, 2, 3, 4, 5}
  InCalendar <- MCInCalendar
  Ops <- MCOps
  MaxOthers = 1
SYMMETRY Symmetry
CHECK_DEADLOCK FALSE
PROPERTIES MeetingsLeftAlone
