SPECIFICATION Spec
CONSTANTS
  File <- MCFile
  Text <- MCText
  Scripts <- MCScripts
  Skipped <- MCSkipped
  Walked <- MCWalked
  Versions <- MCVersions
  MaxInt = 99
  PipeSize = 2
  MayHang = FALSE
INVARIANT PartlyReadableReports
