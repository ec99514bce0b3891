CONSTANTS
  method = method
  dense = dense
  dense1 = dense1
  Compounds = {method, dense, dense1}
  None = None
  Inline = {"v1"}
  Versions = {1, 2}
  Kind <- MCKind
  RawName <- MCRawName
  Position <- MCPosition
  Members <- MCMembers
  Queries <- MCQueries
  InnerClasses <- MCInnerClasses
  Spaces <- MCSpaces
SPECIFICATION TagsSpec
INVARIANTS
  AnswersAgree
  MissingIsUndeclared
  TagsTypeOK
  PageIsComplete
  MixedOnlyWhenRewritten
PROPERTY
  ImplementsLookup
