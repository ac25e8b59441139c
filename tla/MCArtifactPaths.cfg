SPECIFICATION Spec
CONSTANTS
    Names <- MCNames
    DottedNames <- MCDottedNames
    Tools <- MCTools
    MaxRoot = 2
    MaxPath = 3
    Blank = Blank
    Null = Null
INVARIANTS
    OpenedInToolDirectory
    RefusedForCause
    AcceptedIsOpened
CHECK_DEADLOCK FALSE
