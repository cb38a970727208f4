SPECIFICATION MCSpec
CONSTANTS
  Clients = {c1, c2}
  Threads = {t1, t2}
  LocalThreads = {t1, t2}
  NSlots = 2
  Kinds = {"zip", "compress", "upload"}
  HeartbeatTimeout = 0
  StartTimeout = 0
  MaxSeq = 2
  Scenes = {"uploads", "jobs"}
  Nobody = Nobody
SYMMETRY MCSymmetry
INVARIANTS TypeOK AtMostOneRunning LeasesAndIds LeaseHoldersAgree JobExclusive
PROPERTIES ImplementsRunQueue CancelStays
CHECK_DEADLOCK FALSE
