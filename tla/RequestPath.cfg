SPECIFICATION Spec
CONSTANTS
  Calls = {c1, c2}
  Identities = {default, anonymous, secondary}
  LoggedIn = {default, secondary}
  Hosts = {target, ally, stranger}
  Allowed = {target, ally}
  Target = target
  Burst = 1
  Horizon = 2
INVARIANTS TypeOK InScope OneBudget
PROPERTIES Returns
