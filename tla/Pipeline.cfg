SPECIFICATION PipelineFairSpec
CONSTANTS
    Platforms = {"ethereum"}
    MaxVersion <- MCMaxVersion
INVARIANTS
    WatchersHaveProviders
    ExitIsClean
PROPERTIES
    MarketsReachLeaderboard
    TokensReachUpdaters
CHECK_DEADLOCK FALSE
