SPECIFICATION Spec
CONSTANTS
  a = a
  b = b
  NoConv = NoConv
  Conv = {a, b}
  Turn = {1}
  ConvOf <- AllInA
  Tokens = 2
  Cap = 20
  GiveUp = 2
  MaxOpens = 2
  MaxErrors = 2
  MaxRetries = 1
  Hasty = TRUE
  Slow = TRUE
  Mine = {1}
  Cancels = TRUE
INVARIANT
  SavedShown
CHECK_DEADLOCK FALSE
