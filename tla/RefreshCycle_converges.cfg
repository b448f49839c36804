SPECIFICATION FairSpec
CONSTANTS
  p1 = p1
  p2 = p2
  h1 = h1
  h2 = h2
  Nobody = Nobody
  Procs <- MCProcs
  Hooks <- MCHooks
  MaxFollowUps = 2
  MaxEdits = 1
  MaxFaults = 1
  MaxOverlaps = 1
INVARIANTS TypeOK RequestNotForgotten
PROPERTIES HarmlessRace Converges
