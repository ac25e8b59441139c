SPECIFICATION Spec
CONSTANTS
    json2yaml = json2yaml
    jsonMinify = jsonMinify
    Absent = Absent
    Null = Null
    Tools <- MCTools
    ToolOrder <- MCToolOrder
    MaxBuilds = 1
    MaxUps = 2
INVARIANTS
    BackHasModules
CHECK_DEADLOCK FALSE
