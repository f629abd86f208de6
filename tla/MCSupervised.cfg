SPECIFICATION DeploymentSpec
CONSTANTS
    MaxFaults = 2
    MaxTraps = 1
    MaxChurn = 2
    MaxVictims = 1
INVARIANTS
    SupervisorTypeOK
    OneLeftBehind
    WatchedIsFiled
PROPERTIES
    MisnamedByResolution
    
