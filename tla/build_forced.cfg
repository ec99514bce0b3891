CONSTANTS
  h1 = h1
  h2 = h2
  d1 = d1
  d2 = d2
  none = none
  Headers = {h1, h2}
  Docs = {d1, d2}
  None = none
  AlwaysRebuild = TRUE
  EditTicks = {0, 1}
  MaxEdits = 2
  MaxFaults = 1
SPECIFICATION Spec
SYMMETRY Symmetry
INVARIANT OneForcedBuildSuffices
