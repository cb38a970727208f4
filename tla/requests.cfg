\* Two folders, one name, three clicks; two connections, three descriptors, a buffer of
\* two units.
SPECIFICATION RequestsSpec
CONSTANTS
  Folders = {fa, fb}
  Names = {x}
  Home = fa
  NoFolder = NoFolder
  MaxClicks = 3
  MaxActs = 1
  MaxLists = 2
  Conns = {c1, c2}
  Body = 2
  HEADER_MAX = 2
  Descriptors = {3, 4, 5}
  None = None
  MaxListens = 2
INVARIANTS ActsOnWhatIsShown ClosesItsOwn BodyIsWhole
PROPERTIES ViewCatchesUp ConnectionsEnd
CHECK_DEADLOCK FALSE
