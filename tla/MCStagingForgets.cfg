SPECIFICATION FairSpec
CONSTANTS
  Users = {anna, ben}
  Tickets = {t1}
  Uploads = {u1}
  Holds = {h1}
  Requests = {r1}
  Timer = timer
  Sizes = {1}
  AttachmentMax = 3
  MaxFiles = 2
  TicketTtl = 1
  UploadTtl = 2
  LinkTtl = 1
  MaxTime = 3
  None = None
PROPERTIES
  FilesForgotten
