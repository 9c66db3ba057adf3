SPECIFICATION Spec
CONSTANTS
  Registered = {1, 2, 3}
  NoHost = NoHost
  Jobs <- MCJobs
INVARIANTS
  ImportFollows
  RequestsComeLast
  IdentitiesAsDeclared
  ReadyIsSound
