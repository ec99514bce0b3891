CONSTANTS
  N = 4
  Names = {x, y}
  MaxPieces = 3
  MaxTokens = 3
  Contents <- MCContents
  a = a
  b = b
  ParamNames = {a, b}
  NoName = NoName
  NoItem = NoItem
  Functions <- MCFunctions
  dal = dal
  pca = pca
  table = table
  f = f
  g = g
  x = x
  y = y
  z = z
  run = run
  mode = mode
  tags = tags
  dense = dense
  sparse = sparse
  free = free
  loose = loose
  meta = meta
  Global = Global
  Entities = {dal, pca, table, f, g, x, y, z, run, mode, tags, dense, sparse, free, loose, meta}
  Kind <- MCKind
  Parent <- MCParent
  Members <- MCMembers
  Documented <- MCDocumented
  Templates <- MCTemplates
  Documents <- MCDocuments
  MaxLen = 6
SPECIFICATION PagesSpec
INVARIANTS
  PagesTypeOK
  AccessorsBecomeProperties
  DescriptionsVisitedOnce
  EveryFunctionShownOnce
  TextSurvives
  WhatIsSaidIsShown
  ScopesAreKept
  AuthorsAreUnderstood
CHECK_DEADLOCK FALSE
