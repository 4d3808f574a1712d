SPECIFICATION FairSpec
CONSTANTS
  Rule <- MCRule
  File <- MCFile
  Symbol <- MCSymbol
  Digest <- MCDigest
  Runs = {r1}
  Invocations <- GateInvocations
  Path <- MCPath
  NoPath <- MCNoPath
  Trees <- GateTrees
  Adopted <- MCAdopted
  MaxEdits = 1
INVARIANTS TypeOK ReportExact NothingDropped GateSound GateJustified TempDirs PageShowsWhy
PROPERTIES EveryRunEnds KeepsContract
