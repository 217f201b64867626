SPECIFICATION Spec
CONSTANTS
    Calls = {c1, c2}
    k1 = k1
    Keys = {k1}
    NoKey = NoKey
    None = None
    Setups <- MCSetups
    Backoff = 2
    MaxRetries = 2
INVARIANTS
    RateLimitHolds
    RestingKeysAreLeftAlone
    FailedKeysRest
PROPERTIES
    CallsEnd
