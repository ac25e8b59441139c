SPECIFICATION Spec
CONSTANTS
    json2yaml = json2yaml
    jsonMinify = jsonMinify
    call1 = call1
    Absent = Absent
    Unknown = Unknown
    Null = Null
    Tools <- MCTools
    ToolOrder <- MCToolOrder
    DirOrder <- MCDirOrder
    Calls <- MCCalls
    MaxBuilds = 2
INVARIANTS
    OneGeneration
    ManifestVouchesForModule
    PublishedVerifies
    PartialModuleIsNewer
    CancellationNotMasked
    QuietStoreServesEverything
    MissingModuleMeansCleanUp
CHECK_DEADLOCK FALSE
