SPECIFICATION FairSpec
CONSTANTS
  p = p
  e = e
  Sources <- OneSource
  Sidecars <- OneSidecar
  Keys <- ThreeKeys
  MaxChanges = 2
  MaxFaults = 2
INVARIANTS TypeOK
PROPERTIES RetiredOnlyIfLooked GhostsGo
