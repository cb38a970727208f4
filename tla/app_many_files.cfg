SPECIFICATION ImageSpec
CONSTANTS
  BLOCK = 33
  CACHE = 5
  INODE = 4
  HASH = 7
  MAPPED = 12
  SLACK = 6
  AHEAD = 2
  TABLE = 12
  Formats = {"pfs", "exfat"}
  Fold <- MCFold
  NameSize <- MCNameSize
  NameEntries <- MCNameEntries
  Apps <- MCManyApps
INVARIANT UnpackedIsApp
CHECK_DEADLOCK FALSE
