SPECIFICATION FairSpec
CONSTANTS
  f1 = f1
  f2 = f2
  Fetches <- MCFetches
  NTiers = 1
  Interval <- OneInterval
  TokenFrom <- OneFrom
  TenMinutes = 2
  Counts <- MCCounts
  MaxResets = 1
INVARIANTS MarkHasFetch StoredIsServed
PROPERTIES MarkExpires TierKeepsRequesting
