SPECIFICATION Spec
CONSTANTS
    Null = Null
    Half = 6
    Base = 2
    Page = 2
    Symbols = {1, 2}
    Inputs <- MCInputs
    Outputs <- MCOutputs
    Messages <- MCMessages
    MaxCalls = 2
INVARIANTS
    TextIsExactOrLost
    LowCallsNeverThrow
    InputGivenBack
CHECK_DEADLOCK FALSE
