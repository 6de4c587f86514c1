CONSTANTS
    Lifespan = 4
    Cooldown = 2
    Timeout = 1
    MaxKeys = 2
    MaxThreads = 2
SPECIFICATION TokensSpec
INVARIANT
    VerdictsAreRecent
