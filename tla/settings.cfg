SPECIFICATION Spec
CONSTANTS
  Givens <- MCGivens
  Durations <- MCDurations
  ConfigName = "tarsier"
INVARIANTS TypeOK Precedence RefusedForCause
