SPECIFICATION Spec
CONSTANTS
  Shapes <- MCShapes
  MaxFindings = 2
  MaxLen = 2
  NoiseSamples = 3
  MaxColumns = 2
  MaxCandidates = 2
INVARIANTS
  ConfirmedIsReproduced
  ReportedRequestShows
  HandsOff
  FileAnswersFindings
  NoVerdictCutShort
PROPERTIES
  Ends
