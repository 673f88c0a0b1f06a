SPECIFICATION FairSpec
CONSTANTS
    Service <- MCService
    Retries = 2
INVARIANTS
    SilentRedisFailsProbes
    HealthyHasConnected
PROPERTIES
    TroubleTakesDown
    Recovers
