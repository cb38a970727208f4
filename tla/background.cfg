\* A conversion of three files in two jobs each way; images of the apps of MCAppImage; 48
\* texts of at most 32 letters, in streams cut into pieces of 1, 5 and all octets; six
\* blocks, three slots and three workers; two injections next to a running server.
SPECIFICATION BackgroundSpec
CONSTANTS
  FileCount = 3
  Needed = {3}
  MaxJobs = 2
  BLOCK = 33
  CACHE = 5
  INODE = 4
  HASH = 7
  MAPPED = 12
  SLACK = 6
  AHEAD = 2
  TABLE = 12
  Formats = {"pfs", "exfat"}
  Fold <- MCFold
  NameSize <- MCNameSize
  NameEntries <- MCNameEntries
  Apps <- MCApps
  Format <- MCFormat
  Window <- MCWindow
  Texts <- MCTexts
  Pieces = {1, 5, 99}
  Reads <- MCReads
  Trailer <- MCTrailer
  Smaller <- MCSmaller
  Stream <- MCStream
  Turn <- MCTurn
  WholeBlock <- MCWholeBlock
  Workers = {w1, w2, w3}
  BlockCount = 6
  SlotCount = 3
  PoolKinds = {"compress", "decompress"}
  FileEnds <- MCTwoFiles
  NoBlock = NoBlock
  Instances = {p1, p2, p3}
  Old = p1
  PortShared = TRUE
INVARIANTS NothingLost WholeReplacesWhole ImageIsApp
INVARIANTS InflateUndoesDeflate SlotHasOneUser DeletedIsWritten AtMostOneServer
PROPERTIES PoolIsOrdered PoolEnds OneServerInTheEnd ReinjectionSparesJobs
CHECK_DEADLOCK FALSE
