\* A backup of two names and two restores; zips of one of 30 entries and none or one of
\* five behind it; RAR bodies of five units; two prepares; two file operations on two
\* entries; a file of three pieces, two workers, two attempts.
SPECIFICATION DiskWorkSpec
CONSTANTS
  Names = {n1, n2}
  Restorers = {o1, o2}
  Styles = {"upload", "stage"}
  MaxEntries = 2
  MaxBackups = 1
  MaxCrashes = 1
  ZipArchives <- MCZipArchives
  Selections <- MCSelections
  OldFiles <- MCOldFiles
  ZipChunk = 2
  Window = 2
  RarBodies <- MCRarBodies
  Preparers = {"job", "inline"}
  Disks <- MCDisks
  Scans <- MCScans
  TitleIn <- MCTitleIn
  AppName <- MCAppName
  EntryNames = {n1, n2}
  Ops = {o1, o2}
  Devices = {1, 2}
  Aliases = {FALSE, TRUE}
  N = 3
  Concurrency = 2
  MaxAttempts = 2
SYMMETRY MCSymmetry
INVARIANTS OldIsListed RestoreUndoes ZipUnpacks
INVARIANTS RarIsTakenWhole PreparedStays MoveLosesNothing SuccessIsComplete UploadArrives
PROPERTIES OriginalsSurvive PrepareDeletesOnlyExtras
CHECK_DEADLOCK FALSE
