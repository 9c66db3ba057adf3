SPECIFICATION Spec
CONSTANTS
  Callers = {w1, w2}
  Nobody = Nobody
  MaxCalls = 2
  MaxIssued = 3
  MaxExpiry = 2
INVARIANTS
  TypeOK
  LoginsSerialised
  RetryIsFresh
  LoginsHaveCauses
PROPERTIES
  TokenAdvances
  DoReturns
