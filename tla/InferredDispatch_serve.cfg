SPECIFICATION FairSpec
CONSTANTS
  q1 = q1
  q2 = q2
  q3 = q3
  a = a
  b = b
  nothing = nothing
  wholeFile = wholeFile
  Unchecked <- MCUnchecked
  None = None
  Requests <- MCRequests
  Summaries <- OneSummary
  Contents <- MCContents
  WithSites <- OneWithSites
  Usage <- MCUsage
  Estimate = 2
  Ceiling = 4
  MaxEdits = 1
  MaxFaults = 1
INVARIANTS TypeOK LedgerAddsUp SoleDispatcher CacheTellsTruth
PROPERTIES WaitersAreHeard
CHECK_DEADLOCK FALSE
