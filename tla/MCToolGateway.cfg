CONSTANTS
    json2yaml = json2yaml
    Tools = {json2yaml}
    ToolOrder <- MCOrder
    DirOrder <- MCOrder
    MaxBuilds = 1
    Calls = {c1, c2}
    Unknown = Unknown
    Absent = Absent
    Null = Null
SPECIFICATION GatewaySpec
SYMMETRY CallSymmetry
INVARIANTS
    NoClientLeaks
    PrepareStatusIsTruthful
    FulfilledIsTheReply
    ListedCanBePrepared
PROPERTY RequestsAreBounded
CHECK_DEADLOCK FALSE
