SPECIFICATION Spec
CONSTANTS
  Rule <- MCRule
  File <- MCFile
  Symbol <- MCSymbol
  Digest <- MCDigest
  Runs = {r1, r2, r3}
  Invocations <- TornInvocations
  Path <- MCPath
  NoPath <- MCNoPath
  Trees <- LoudTrees
  Adopted <- AdoptedBaseline
  MaxEdits = 0
INVARIANT CorruptIsAnError
