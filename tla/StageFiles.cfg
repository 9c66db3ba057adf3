SPECIFICATION Spec
CONSTANTS
  Procs = {p1, p2, p3}
  Paths <- MCPaths
  Commands <- MCCommands
  Names = {"x"}
  Scanned <- MCScanned
  NoPath = NoPath
INVARIANTS
  OutputsAgree
  RulesAreWorst
PROPERTIES
  StoresWhole
  InputKept
