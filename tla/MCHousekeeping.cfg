SPECIFICATION FairSpec
CONSTANTS
  Websites = {"w1", "w2"}
  LabelRank <- MCLabelRank
  RankingLimit = 1
  Day = 2
  Hour = 1
  MaxReport = 2
  Principals <- MCPrincipals
  Samples <- MCSamples
  Ranges <- MCRanges
  PageFilters = {"any", "/a"}
  Expiring = {"campaigns", "slots"}
  Keep = 3
  BatchRows = 1
  MaxPasses = 2
  MaxPaths = 1
  Isolates = {i1, i2}
  Templates <- MCTemplates
  Behind = {"campaigns"}
  Horizon = 4
  MaxEvents = 2
  MaxFailures = 1
INVARIANTS
  FiguresAgree
  ReportsAreWhole
  OneSaltADay
  PixelPathsBounded
PROPERTIES
  ExpiredGo
CHECK_DEADLOCK FALSE
