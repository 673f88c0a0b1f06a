SPECIFICATION Spec
CONSTANTS
    Service = {"api", "worker", "cleanup", "runner-manager"}
    Environments <- MCBlanks
    Deployments <- MCDeployments
    MaxFaults = 1
INVARIANTS
    BlankIsUnset
