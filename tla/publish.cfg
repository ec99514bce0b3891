CONSTANTS
  p1 = p1
  p2 = p2
  Pages = {p1, p2}
  MaxRuns = 3
SPECIFICATION LiveSpec
INVARIANTS
  TypeOK
  OnlyVettedMainOnSite
  SiteHasAWholeBuild
PROPERTY EveryGoodBuildPublishes
CHECK_DEADLOCK FALSE
