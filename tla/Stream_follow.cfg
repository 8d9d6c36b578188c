SPECIFICATION FairSpec
CONSTANTS
  a = a
  b = b
  NoConv = NoConv
  Conv = {a, b}
  Turn = {1, 2, 3}
  ConvOf <- OneEach
  Tokens = 2
  Cap = 20
  GiveUp = 8
  MaxOpens = 2
  MaxErrors = 0
  MaxRetries = 0
  Hasty = FALSE
  Slow = FALSE
  Mine = {1, 2}
  Cancels = FALSE
INVARIANT
  NoGap
PROPERTIES
  TurnShown
  ComposerFrees
CHECK_DEADLOCK FALSE
