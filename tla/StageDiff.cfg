SPECIFICATION DiffSpec
CONSTANTS
  params = params
  headers = headers
  one = one
  other = other
  Checks <- MCChecks
  Subjects <- MCSubjects
  Named <- MCNamed
  Routes = {r1}
  NoCheck = NoCheck
  Grades <- MCGrades
INVARIANTS
  ResolvedIsEarned
  EveryFindingPlaced
  GateSound
