SPECIFICATION ClarifySpec
CONSTANTS
  MaxAsks = 1
  Choice = {"yes", "no"}
  MaxAnswers = 1
  MaxClarifyFaults = 0
  Overlap = FALSE
INVARIANT
  FinalTextStays
CHECK_DEADLOCK FALSE
