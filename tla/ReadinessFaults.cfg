SPECIFICATION FairSpec
CONSTANTS
    Service <- MCApi
    Retries = 2
PROPERTY
    PassMeansReachable
