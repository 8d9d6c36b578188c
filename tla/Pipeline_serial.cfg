SPECIFICATION FairSpec
CONSTANTS
  t1 = t1
  t2 = t2
  c1 = c1
  c2 = c2
  Turn = {t1, t2}
  Conv = {c1}
  ConvOf <- SameConv
  NoTurn = NoTurn
  MaxEntries = 3
  MaxConcurrent = 1
  MaxUpdates = 1
  MaxFaults = 1
  Overlap = TRUE
INVARIANTS
  HandledOnce
  NothingLeaks
  SavedIsStreamed
PROPERTIES
  ImplementsLifecycle
  NoTokenAfterDone
  EveryTurnSettles
CHECK_DEADLOCK FALSE
