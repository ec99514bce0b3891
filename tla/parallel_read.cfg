CONSTANTS
  h1 = h1
  d1 = d1
  none = none
  Headers = {h1}
  Docs = {d1}
  None = none
  AlwaysRebuild = FALSE
  EditTicks = {1}
  MaxEdits = 1
  MaxFaults = 0
SPECIFICATION ParallelSpec
INVARIANT ParallelReadIsSafe
