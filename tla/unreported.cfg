SPECIFICATION Spec
CONSTANTS
  Rule <- MCRule
  File <- MCFile
  Symbol <- MCSymbol
  Digest <- MCDigest
  Runs = {r1}
  Invocations <- BaselineInvocations
  Path <- MCPath
  NoPath <- MCNoPath
  Trees <- QuietTrees
  Adopted <- AdoptedBaseline
  MaxEdits = 0
INVARIANT RecordedWasReported
