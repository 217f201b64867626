SPECIFICATION Spec
CONSTANTS
  f1 = f1
  f2 = f2
  h1 = h1
  top = top
  rest = rest
  Fetches <- MCFetches
  Handlers = {h1}
  Names <- MCNames
  NTiers = 1
  NPages = 2
  Name <- JustTop
  PageFrom <- OneFrom
  PageTo <- OneTo
  MaxVersion = 1
  MaxResets = 1
SYMMETRY Symmetry
INVARIANTS ListedIsCached ChangeIsAnnounced MarkHasFetch InitializedComplete
CHECK_DEADLOCK FALSE
