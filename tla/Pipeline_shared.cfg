SPECIFICATION Spec
CONSTANTS
  t1 = t1
  t2 = t2
  c1 = c1
  c2 = c2
  Turn = {t1, t2}
  Conv = {c1}
  ConvOf <- SameConv
  NoTurn = NoTurn
  MaxEntries = 2
  MaxConcurrent = 2
  MaxUpdates = 1
  MaxFaults = 2
  Overlap = TRUE
INVARIANTS
  TypeOK
  NoSpuriousCancel
  DoneAfterCommit
SYMMETRY Symmetry
CHECK_DEADLOCK FALSE
