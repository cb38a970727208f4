\* One prepare of a patch that was extracted into the app it is for.
SPECIFICATION PrepareSpec
CONSTANTS
  Preparers = {"job"}
  Disks <- MCInside
  Scans <- MCInsideScans
  TitleIn <- MCTitleIn
  AppName <- MCAppName
PROPERTY OnlyExtrasAreDeleted
CHECK_DEADLOCK FALSE
