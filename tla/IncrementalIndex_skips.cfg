SPECIFICATION Spec
CONSTANTS
  t = t
  f = f
  a = a
  b = b
  None = None
  Files <- TwoFiles
  Place <- Places
  Contents <- MCContents
  Trouble <- OneTrouble
  MaxAttempts = 3
  MaxEdits = 2
  MaxFaults = 1
  MaxManual = 0
INVARIANTS SkipsOnlyWhatIsStored
