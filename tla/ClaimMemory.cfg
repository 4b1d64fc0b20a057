SPECIFICATION Spec
CONSTANTS
    Claims <- MCClaims
    Rule <- MCRule
    Sources <- MCSources
    Source <- MCSource
    Edges = {}
    Manifests <- MCManifests
    Manifest <- MCManifest
    Obs <- MCObs
    ValueAbsent <- MCValueAbsent
    Batches <- MCBatches
    Pointers <- MCPointers
    Attributions <- MCAttributions
    MaxSteps = 5
INVARIANTS
    MemoryTypeOK
    
    ForecastHolds
    DependenciesAcyclic
CHECK_DEADLOCK FALSE
