CONSTANTS
  p1 = p1
  p2 = p2
  Pages = {p1, p2}
  MaxRuns = 2
SPECIFICATION Spec
INVARIANT SiteShowsLatestBuild
CHECK_DEADLOCK FALSE
