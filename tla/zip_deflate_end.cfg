SPECIFICATION ZipSpec
CONSTANTS
  ZipArchives <- MCDeflatedArchives
  Selections <- MCSelections
  OldFiles <- MCOldFiles
  ZipChunk = 2
  Window = 2
INVARIANT ZipTakesDeflatedArchives
CHECK_DEADLOCK FALSE
