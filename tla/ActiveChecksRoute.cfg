SPECIFICATION Spec
CONSTANTS
  MaxParams = 1
  MaxLen = 1
  NoiseSamples = 2
  Tries = 2
  IdLimit = 2
INVARIANT
  ProbesStayUnderBase
