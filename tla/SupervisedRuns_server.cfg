SPECIFICATION FairSpec
CONSTANTS
  r1 = r1
  r2 = r2
  f1 = f1
  f2 = f2
  None = None
  Runs <- MCRuns
  Asked <- MCAsked
  MaxCalls = 2
  MaxFollowUps = 1
  MaxFaults = 2
INVARIANTS
  TypeOK
  AnswersStand
  StrandedOnlyByKill
PROPERTIES
  SettledRowsStand
  ChildrenEnd
CHECK_DEADLOCK FALSE
