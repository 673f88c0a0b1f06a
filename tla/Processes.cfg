SPECIFICATION Spec
CONSTANTS
    Service = {"api", "worker", "cleanup", "runner-manager"}
    Environments <- MCEnvironments
    Deployments <- MCDeployments
    MaxFaults = 2
INVARIANTS
    TypeOK
    SchemaFirst
PROPERTIES
    JobNotCut
    ShutdownEnds
    ComesBack
