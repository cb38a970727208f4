SPECIFICATION FairPipeSpec
CONSTANTS
  Uploads = {u1}
  Cancellers = {c1, c2}
  Kinds = {"zip", "rar", "local"}
  Cap = 2
  Body = 3
  Entries = 2
  Initial = 1
  RecvSize = 2
  ReadSize = 2
  None = None
PROPERTIES CancelEndsUpload
CHECK_DEADLOCK FALSE
