SPECIFICATION LinksSpec
CONSTANTS
  Conv = {c1, c2}
  Profile = {p1, p2}
  MaxClients = 3
  MaxConcurrent = 2
  MaxTurns = 3
  MaxFaults = 1
  MaxForks = 1
  CanResume = TRUE
  MaxAsks = 2
  Choice = {yes, no}
  MaxAnswers = 2
  MaxClarifyFaults = 1
  Overlap = TRUE
  Chat = {c1, c2}
  Live = c1
  MaxControls = 2
  MaxAgentAsks = 1
SYMMETRY ChoiceSymmetry
INVARIANTS
  SessionsApart
  NoProcessLost
  AnswersBelong
  OutcomeTrue
  NoLostWakeup
  AnswersReturn
PROPERTY
  ContextKept
CHECK_DEADLOCK FALSE
