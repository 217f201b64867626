SPECIFICATION FairSpec
CONSTANTS
  f1 = f1
  f2 = f2
  h1 = h1
  top = top
  rest = rest
  Fetches <- MCFetches
  Handlers = {}
  Names <- MCNames
  NTiers = 2
  NPages = 2
  Name <- TwoNames
  PageFrom <- TwoFrom
  PageTo <- TwoTo
  MaxVersion = 1
  MaxResets = 0
INVARIANTS InitializedComplete InitializedWhenComplete
PROPERTIES InitializedEventually
