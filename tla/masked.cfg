SPECIFICATION Spec
CONSTANTS
  Rule <- MCRule
  File <- MCFile
  Symbol <- MCSymbol
  Digest <- MCDigest
  Runs = {r1}
  Invocations <- MaskingInvocations
  Path <- MCPath
  NoPath <- MCNoPath
  Trees <- TwinTrees
  Adopted <- AdoptedBaseline
  MaxEdits = 0
INVARIANT FreshOpenEmitted
