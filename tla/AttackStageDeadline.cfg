SPECIFICATION Spec
CONSTANTS
  Shapes <- MCShapes
  MaxFindings = 2
  MaxLen = 1
  NoiseSamples = 3
  MaxColumns = 2
  MaxCandidates = 2
INVARIANT
  TruncatedRunRefused
