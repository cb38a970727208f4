\* One copy of a folder whose two parents are one directory.
SPECIFICATION FileOpsSpec
CONSTANTS
  EntryNames = {n1, n2}
  Ops = {o1}
  Devices = {1}
  Aliases = {TRUE}
INVARIANT CopySparesSource
CHECK_DEADLOCK FALSE
