SPECIFICATION Spec
CONSTANTS
  MaxParams = 2
  MaxLen = 1
  NoiseSamples = 2
  Tries = 2
  IdLimit = 2
INVARIANTS
  FindingsAreShown
  GapsAreAdmitted
