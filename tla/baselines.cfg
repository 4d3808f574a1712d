SPECIFICATION FairSpec
CONSTANTS
  Rule <- MCRule
  File <- MCFile
  Symbol <- MCSymbol
  Digest <- MCDigest
  Runs = {r1, r2}
  Invocations <- BaselineInvocations
  Path <- MCPath
  NoPath <- MCNoPath
  Trees <- BaselineTrees
  Adopted <- TwoBaselines
  MaxEdits = 1
INVARIANTS BaselineIsWhole KnownWasRecorded Settled
PROPERTY EveryRunEnds
