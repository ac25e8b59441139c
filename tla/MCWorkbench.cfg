SPECIFICATION FairSpec
CONSTANTS
    json2yaml = json2yaml
    jsonMinify = jsonMinify
    aText = aText
    EmptyText = EmptyText
    Null = Null
    Tools <- MCTools
    Catalogs <- MCCatalogs
    Inputs <- MCInputs
    NumMounts = 2
    MaxAttempts = 3
INVARIANTS
    TypeOK
    OneConfigureAtATime
    SpinnersMatchWork
    RunnableIsReady
    ShownBelongsToSelection
    StatusCoherent
    StaleFlightMeansUnconfigured
PROPERTIES
    ReplacedOnlyByNewer
    ImplementsStudio
    WorkSettles
CHECK_DEADLOCK FALSE
