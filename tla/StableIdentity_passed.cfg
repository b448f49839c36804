SPECIFICATION Spec
CONSTANTS
  x = x
  y = y
  r1 = r1
  r2 = r2
  None = None
  Gone = Gone
  Locators <- ThreeLocators
  Bodies <- TwoBodies
  Signed <- OneSigned
  Runs <- TwoRuns
  Trees <- FirstTrees
  MaxHints = 1
  MaxEdits = 0
  MaxFaults = 1
SYMMETRY RunSymmetry

PROPERTIES StillPresentKeepsIdentity
