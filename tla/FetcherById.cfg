SPECIFICATION FairSpec
CONSTANTS
  f1 = f1
  f2 = f2
  a = a
  b = b
  x = x
  u = u
  Ids <- MCIds
  NPages = 2
  NTiers = 2
  IdFrom <- MCFrom
  IdTo <- MCTo
  FetchCoinslistIds <- SecondTier
  ExtraProvider = TRUE
  ExtraIds <- OneExtra
  Batch = FALSE
  ChunkSize = 2
  IdLength <- MCLength
  MaxChunkStringLength = 2
  Unknown <- OneUnknown
  Updates <- MCUpdates
  Checks = {"tick"}
  Fetches <- MCFetches
  MaxResets = 1
INVARIANTS TypeOK ListRanksPages MarkHasFetch RefreshIsWhole
PROPERTIES KnownTiersRefresh ExtraIdsAreFetched
