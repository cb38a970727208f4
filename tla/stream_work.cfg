\* Two uploads and one cancelling request, a ring of two bytes and a body of three; two
\* operations of any kind, one slot of the queue, two logs to a list, one clear.
SPECIFICATION StreamWorkSpec
CONSTANTS
  Uploads = {u1, u2}
  Cancellers = {c1}
  Kinds = {"zip", "rar", "local"}
  KindMixes = {{"zip"}, {"zip", "rar"}, {"rar", "local"}}
  Cap = 2
  Body = 3
  Entries = 2
  Initial = 1
  RecvSize = 2
  ReadSize = 2
  None = None
  Operations = {u1, u2}
  OperationKinds = {"stream", "app", "files", "local", "copy"}
  QueueSize = 1
  ListLimit = 2
  MaxClears = 1
SYMMETRY MCSymmetry
INVARIANTS RingHoldsStream PipeLivesWhileUsed SuccessIsComplete SleepersHaveWakers
INVARIANTS LogsTellOfTheirOwn NothingDropsOut
CHECK_DEADLOCK FALSE
