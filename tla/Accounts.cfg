SPECIFICATION AccountsSpec
CONSTANTS
  Tab = {x, y}
  Call = {c1, c2}
  MaxPairs = 3
  MaxReloads = 1
  MaxUpsets = 1
  Person = {ann, bob}
  Founder = ann
  GivenRole = {"member", "owner"}
  Payload <- Payloads
  MaxTeamRequests = 3
  Email = {e1, e2}
  LdapId = {x1}
  WecomId = {x2}
  LocalUser = {e1}
  Handle = {h}
  MaxAccountRequests = 3
  Limit = {0, 2}
  DefaultLimit = 2
  ShownLimit = 1
  LoginLimit = 1
  Server = {"fs"}
  MaxAdminRequests = 2
  MaxCalls = 2
  MaxWindows = 1
SYMMETRY BrowserSymmetry
INVARIANTS
  SessionsExplained
  TeamConsistent
  GoneStaysGone
  SignInFailsForAReason
  AccountConsistent
  LimitsHold
CHECK_DEADLOCK FALSE
