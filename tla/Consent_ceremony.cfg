SPECIFICATION FairSpec
CONSTANTS
  Asks <- SomeAsks
  SakTimeout = 3
  VtDeadline = 1
  AnswerTimeout = 2
  Base = 2
  Longest = 4
  Clamp = 2
INVARIANTS TypeOK InformedAnswer
PROPERTIES VtGivenBack ApprovalHolds Answered
