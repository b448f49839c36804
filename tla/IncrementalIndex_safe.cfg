SPECIFICATION FairSpec
CONSTANTS
  t = t
  f = f
  a = a
  b = b
  None = None
  Files <- TwoFiles
  Place <- Places
  Contents <- MCContents
  Trouble <- OneTrouble
  MaxAttempts = 3
  MaxEdits = 1
  MaxFaults = 1
  MaxManual = 1
INVARIANTS TypeOK SnapshotVouches
PROPERTIES FixedPoint Heals
