SPECIFICATION Spec
CONSTANTS
  Conv = {c1, c2}
  Profile = {p1}
  MaxClients = 3
  MaxConcurrent = 1
  MaxTurns = 4
  MaxFaults = 0
  MaxForks = 1
  CanResume = TRUE
INVARIANT
  ForkKeepsApart
CHECK_DEADLOCK FALSE
