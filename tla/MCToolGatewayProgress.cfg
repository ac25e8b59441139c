CONSTANTS
    json2yaml = json2yaml
    Tools = {json2yaml}
    ToolOrder <- MCOrder
    DirOrder <- MCOrder
    MaxBuilds = 1
    Calls = {c1}
    Unknown = Unknown
    Absent = Absent
    Null = Null
SPECIFICATION GatewayFairSpec
PROPERTIES
    FetchSettles
CHECK_DEADLOCK FALSE
