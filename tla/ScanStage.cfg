SPECIFICATION Spec
CONSTANTS
  Shapes <- MCShapes
  Checks <- MCChecks
  MaxEndpoints = 2
  MaxConcurrency = 2
INVARIANTS
  NothingDestroyed
  WholeOrNothing
  AccountedOnce
  VerdictsAreEarned
  FindingsKept
PROPERTIES
  Ends
