CONSTANTS
  h1 = h1
  h2 = h2
  d1 = d1
  d2 = d2
  none = none
  Headers = {h1, h2}
  Docs = {d1}
  None = none
  AlwaysRebuild = FALSE
  EditTicks = {1}
  MaxEdits = 2
  MaxFaults = 1
SPECIFICATION LiveSpec
PROPERTY EventuallyFresh
