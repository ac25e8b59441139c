SPECIFICATION Spec
CONSTANTS
    json2yaml = json2yaml
    jsonMinify = jsonMinify
    Absent = Absent
    Null = Null
    Tools <- MCTools
    ToolOrder <- MCToolOrder
    MaxBuilds = 1
    MaxUps = 2
INVARIANT QuietSeedingCopiesAll
PROPERTY VolumeOnlyForward
CHECK_DEADLOCK FALSE
