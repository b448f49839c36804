SPECIFICATION Spec
CONSTANTS
  None = None
  r1 = r1
  r2 = r2
  c1 = c1
  p1 = p1
  p2 = p2
  Children <- MCChildren
  Parents <- MCParents
  Runs <- MCRuns
  BatchSize = 2
  MaxWrites = 3
  MaxSessions = 2
  Configs <- EmissionOnly
PROPERTIES
  CompletedIsConsistent
CHECK_DEADLOCK FALSE
