SPECIFICATION AuthSpec
CONSTANTS
  Tab = {x}
  Call = {c1}
  MaxPairs = 3
  MaxReloads = 1
  MaxUpsets = 0
INVARIANT
  ReloadRestores
CHECK_DEADLOCK FALSE
