SPECIFICATION FairSpec
CONSTANTS
  f1 = f1
  f2 = f2
  a = a
  b = b
  x = x
  u = u
  Ids <- MCIds
  NPages = 1
  NTiers = 1
  IdFrom <- OneFrom
  IdTo <- OneFrom
  FetchCoinslistIds <- OneTier
  ExtraProvider = FALSE
  ExtraIds <- OneExtra
  Batch = FALSE
  ChunkSize = 2
  IdLength <- MCLength
  MaxChunkStringLength = 2
  Unknown <- NoUnknown
  Updates <- OneUpdate
  Checks = {"tick"}
  Fetches <- MCFetches
  MaxResets = 0
PROPERTIES ExtraIdsAreFetched
