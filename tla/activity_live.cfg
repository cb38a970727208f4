SPECIFICATION MCFairSpec
CONSTANTS
  Clients = {c1, c2}
  Threads = {t1}
  LocalThreads = {}
  NSlots = 2
  Kinds = {"zip"}
  HeartbeatTimeout = 0
  StartTimeout = 0
  MaxSeq = 2
  Scenes = {"zips"}
  Nobody = Nobody
PROPERTY QueueMoves
CHECK_DEADLOCK FALSE
