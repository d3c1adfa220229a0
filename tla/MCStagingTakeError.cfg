SPECIFICATION Spec
CONSTANTS
  Users = {anna}
  Tickets = {t1, t2}
  Uploads = {u1, u2}
  Holds = {h1, h2}
  Requests = {r1}
  Timer = timer
  Sizes = {1, 2}
  AttachmentMax = 3
  MaxFiles = 2
  TicketTtl = 1
  UploadTtl = 1
  LinkTtl = 1
  MaxTime = 2
  None = None
PROPERTIES
  NothingTakenOnError
