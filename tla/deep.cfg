SPECIFICATION FairSpec
CONSTANTS
  Rule <- MCRule
  File <- MCFile
  Symbol <- MCSymbol
  Programs <- MCPrograms
  Analyzers <- MCAnalyzers
INVARIANTS TypeOK Isolated Justified FirstStands WrappersNeverGate
PROPERTIES ScanReturns StepsRunOut KeepsContract
