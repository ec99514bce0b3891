CONSTANTS
  dal = dal
  dnn = dnn
  None = None
  dirs <- MCdirs
  Roots <- MCRoots
  Nested <- MCNested
  Doxyfiles <- MCDoxyfiles
  Start <- MCStart
  Words <- MCWords
  MaxEdits = 3
  MaxKills = 2
SPECIFICATION CommandsSpec
INVARIANTS
  CommandsTypeOK
  DirectoriesKept
  EveryElementIsReached
  WordsSurvive
PROPERTY
  EndsAtLast
CHECK_DEADLOCK FALSE
